---- MODULE Spec2Model ----
(***************************************************************************)
(* State-machine model of the AutoFlow workflow execution core:            *)
(*   backend/app/core/runner.py   (WorkflowEngine, executors)              *)
(*   backend/app/main.py          (run, webhook and schedule handlers) *)
(*   backend/services/scheduler.py (schedule_workflow)                     *)
(***************************************************************************)
EXTENDS Integers, Sequences, FiniteSets, TLC

(***************************************************************************)
(* Bounds of the model.                                                    *)
(***************************************************************************)
MaxNodes == 3
MaxEdges == 3

\* Names available for node ids; a workflow of k nodes uses the first k.
Ids == <<"a", "b", "c", "d", "e", "f">>

IdSet(k) == {Ids[i] : i \in 1..k}

\* Position of an id in Ids (used only to put edge lists in a canonical order).
IdIdx(id) == CHOOSE i \in 1..Len(Ids) : Ids[i] = id

\* Node kinds whose executors are modelled.  "gpt" is served by an executor
\* class of NodeExecutorFactory, "webhook" by the legacy branch.
NodeKinds == {"gpt", "webhook"}

None == "None"

VARIABLES
  heap,              \* workflow objects (Node objects are shared by reference)
  stored_workflows,  \* main.stored_workflows: id -> object
  runs,              \* engine runs: run id -> run record
  pred_result,       \* a predecessor result handed to a downstream executor
  producer,          \* the node kind and outcome that produced pred_result
  absorbed,          \* downstream executor -> what it took pred_result for
  now,               \* the clock, in ticks of 30 s
  jobs,              \* the schedulers' job stores: <<scheduler, job id>> -> job
  instances,         \* the executors' running instances per <<scheduler, job id>>
  fired,             \* history: observed <<scheduler, job id>> -> the fires of
                     \* that job since it was last added, in order
  latest,            \* history: what the most recent registration in force
                     \* under a key submitted (flow: id -> object,
                     \* cron: <<scheduler, job id>> -> cron expression),
                     \* and registered: id -> the number of register
                     \* requests for it
  reply,             \* the response of the handler that returned last
  db,                \* the database: mode, reachability, users, executions
  broker,            \* the APIKeyManager instances and what they resolved
  environ            \* os.environ: variable -> value

engineVars == <<heap, stored_workflows, runs>>
textVars   == <<pred_result, producer, absorbed>>
schedVars  == <<now, jobs, instances, fired>>
recordVars == <<latest, reply, db>>
brokerVars == <<broker, environ>>

vars == <<heap, stored_workflows, runs, pred_result, producer, absorbed,
          now, jobs, instances, fired, latest, reply, db, broker, environ>>

(***************************************************************************)
(* Dictionaries (Python dict) as functions.                                *)
(***************************************************************************)
EmptyDict == [k \in {} |-> None]

Put(d, k, v) == [x \in (DOMAIN d) \cup {k} |-> IF x = k THEN v ELSE d[x]]

Get(d, k) == IF k \in DOMAIN d THEN d[k] ELSE None

\* d.get(k, v)
GetOr(d, k, v) == IF k \in DOMAIN d THEN d[k] ELSE v

SeqSet(s) == {s[i] : i \in 1..Len(s)}

\* s with the elements already present earlier dropped (first occurrence kept).
RECURSIVE AppendNew(_, _)
AppendNew(s, t) ==
  IF t = <<>> THEN s
  ELSE AppendNew(IF Head(t) \in SeqSet(s) THEN s ELSE Append(s, Head(t)), Tail(t))

(***************************************************************************)
(* WorkflowEngine._build_graph: nx.DiGraph from nodes and edges.           *)
(* gnodes  - the graph's nodes in insertion order                          *)
(* hasData - the nodes that carry the "data" attribute (added by add_node) *)
(* gedges  - the edge list in insertion order                              *)
(***************************************************************************)
RECURSIVE EdgeEnds(_)
EdgeEnds(edges) ==
  IF edges = <<>> THEN <<>>
  ELSE <<Head(edges).source, Head(edges).target>> \o EdgeEnds(Tail(edges))

\* Mutant: the nodes an edge creates get a data attribute too.
BuildGraphDataEverywhere(nodes, edges) ==
  LET ids == [i \in 1..Len(nodes) |-> nodes[i].id]
      gn  == AppendNew(AppendNew(<<>>, ids), EdgeEnds(edges))
  IN [gnodes |-> gn, hasData |-> SeqSet(gn), gedges |-> edges]

BuildGraph(nodes, edges) ==
  LET ids == [i \in 1..Len(nodes) |-> nodes[i].id]
  IN [gnodes  |-> AppendNew(AppendNew(<<>>, ids), EdgeEnds(edges)),
      hasData |-> SeqSet(ids),
      gedges  |-> edges]

\* graph.predecessors(n) / graph.neighbors(n)
Predecessors(G, n) == {e.source : e \in {x \in SeqSet(G.gedges) : x.target = n}}

Successors(G, n) ==
  LET hits == SelectSeq(G.gedges, LAMBDA e : e.source = n)
  IN AppendNew(<<>>, [i \in 1..Len(hits) |-> hits[i].target])

InDegree(G, n) == Cardinality(Predecessors(G, n))

(***************************************************************************)
(* nx.topological_sort: Kahn's algorithm over generations, which visits    *)
(* the nodes in the order of a FIFO queue seeded with the zero in-degree   *)
(* nodes in insertion order.  left # {} is NetworkXUnfeasible.             *)
(***************************************************************************)
RECURSIVE Kahn(_, _, _, _)
Kahn(G, queue, indeg, out) ==
  IF queue = <<>>
  THEN [order |-> out, left |-> {v \in DOMAIN indeg : indeg[v] > 0}]
  ELSE LET n     == Head(queue)
           kids  == Successors(G, n)
           indg2 == [v \in DOMAIN indeg |->
                       IF v \in SeqSet(kids) THEN indeg[v] - 1 ELSE indeg[v]]
           ready == SelectSeq(kids, LAMBDA c : indg2[c] = 0)
       IN Kahn(G, Tail(queue) \o ready, indg2, Append(out, n))

\* Mutant: the nodes in insertion order, the edges ignored.
TopologicalSortInsertionOrder(G) == [order |-> G.gnodes, left |-> {}]

TopologicalSort(G) ==
  LET indeg == [v \in SeqSet(G.gnodes) |-> InDegree(G, v)]
      zero  == SelectSeq(G.gnodes, LAMBDA v : indeg[v] = 0)
  IN Kahn(G, zero, indeg, <<>>)

(***************************************************************************)
(* WorkflowEngine._get_execution_order.                                    *)
(*   "order" - the list is returned                                        *)
(*   "none"  - NetworkXUnfeasible was caught, None is returned             *)
(*   "raise" - graph.nodes[id]["data"] raised KeyError (a node that only   *)
(*             an edge created has no data attribute)                      *)
(***************************************************************************)
\* Mutant: NetworkXUnfeasible is not noticed, the nodes sorted so far are used.
GetExecutionOrderNoCycleCheck(G) ==
  LET ts == TopologicalSort(G)
  IN IF \E i \in 1..Len(ts.order) : ts.order[i] \notin G.hasData
     THEN [kind |-> "raise", order |-> <<>>]
     ELSE [kind |-> "order", order |-> ts.order]

GetExecutionOrder(G) ==
  LET ts == TopologicalSort(G)
  IN IF ts.left # {} THEN [kind |-> "none", order |-> <<>>]
     ELSE IF \E i \in 1..Len(ts.order) : ts.order[i] \notin G.hasData
          THEN [kind |-> "raise", order |-> <<>>]
          ELSE [kind |-> "order", order |-> ts.order]

CycleError == [error |-> "Cycle detected in workflow"]
FailedError == [error |-> "Workflow execution failed: 'data'"]

\* `if not execution_order`: None and the empty list are both falsy.
NotTruthy(eo) == eo.kind = "none" \/ eo.order = <<>>

(***************************************************************************)
(* Workflow objects.  A workflow object stands for the Node objects of one *)
(* parsed request body: every holder of the reference sees the same        *)
(* node.data dictionaries.                                                 *)
(*   nodes - the node list, each [id, type]                                *)
(*   edges - the edge list, each [source, target]                          *)
(*   data  - node id -> the injected keys of node.data                     *)
(***************************************************************************)
NoInject == [webhook_payload |-> None, webhook_source |-> None]

MkWorkflow(nodes, edges) ==
  [nodes |-> nodes, edges |-> edges,
   data  |-> [n \in {nodes[i].id : i \in 1..Len(nodes)} |-> NoInject]]

NodeLists ==
  UNION {{[i \in 1..k |-> [id |-> Ids[i], type |-> t[i]]] : t \in [1..k -> NodeKinds]}
           : k \in 0..MaxNodes}

EdgeRecs == [source : IdSet(MaxNodes), target : IdSet(MaxNodes)]

EdgeLess(e, f) ==
  \/ IdIdx(e.source) < IdIdx(f.source)
  \/ e.source = f.source /\ IdIdx(e.target) < IdIdx(f.target)

\* Edge lists without duplicates, in one canonical order.
EdgeLists ==
  UNION {{es \in [1..n -> EdgeRecs] : \A i \in 1..(n - 1) : EdgeLess(es[i], es[i + 1])}
           : n \in 0..MaxEdges}

Workflows == {MkWorkflow(ns, es) : ns \in NodeLists, es \in EdgeLists}

UnknownNode == [id |-> None, type |-> None]

NodeOf(w, id) ==
  IF \E i \in 1..Len(w.nodes) : w.nodes[i].id = id
  THEN w.nodes[CHOOSE i \in 1..Len(w.nodes) : w.nodes[i].id = id]
  ELSE UnknownNode

(***************************************************************************)
(* Node executors.  An outcome is what the executor's external call led    *)
(* to: ok = FALSE is an ExecutionResult(False, ...) / a raised exception / *)
(* a failure string of the service, res the string that results.  awaits   *)
(* tells whether the executor suspended on the event loop (an HTTP         *)
(* exchange) before it returned: an outcome with awaits = FALSE is         *)
(* returned without yielding to other coroutines.                          *)
(***************************************************************************)
FactoryKinds ==
  {"gpt", "llama", "gemini", "claude", "mistral",
   "email", "discord", "file_upload", "image_generation"}

Outcomes(kind) ==
  CASE kind = "gpt" ->
         {[ok |-> TRUE,  awaits |-> TRUE,  res |-> "HELLO SUMMARY"],
          [ok |-> FALSE, awaits |-> FALSE, res |-> "No prompt provided for gpt node"]}
    [] kind = "schedule" ->
         {[ok |-> TRUE,  awaits |-> FALSE, res |-> "Schedule set: */1 * * * *"]}
    [] OTHER ->
         {[ok |-> TRUE,  awaits |-> FALSE, res |-> "Webhook triggered (no URL provided)"],
          [ok |-> TRUE,  awaits |-> TRUE,
           res |-> "Webhook request executed successfully | Status: 200"],
          [ok |-> FALSE, awaits |-> TRUE,
           res |-> "Webhook request timed out after 30 seconds"]}

\* WorkflowEngine._execute_single_node / _execute_legacy_node: the string
\* that becomes the node's result.
ExecuteSingleNode(kind, out) ==
  IF kind \in FactoryKinds
  THEN IF out.ok THEN out.res
       ELSE IF out.res # "" THEN out.res ELSE "Error executing node"
  ELSE out.res

(***************************************************************************)
(* Engine runs.                                                            *)
(*   pc      - "idle" | "exec" (about to invoke the executor of            *)
(*             order[pos]) | "await" (that executor is suspended) |        *)
(*             "done" (run_workflow returned ret)                          *)
(*   obj     - the workflow object whose nodes and edges were passed       *)
(*   calls   - history: the executor invocations, in order                 *)
(*   failed  - history: the nodes whose executor failed                    *)
(*   count   - the execution count the handler of POST /run read           *)
(***************************************************************************)
NoOrigin == [kind |-> "engine", payload |-> None, source |-> None]

IdleRun ==
  [pc |-> "idle", obj |-> 0, origin |-> NoOrigin,
   graph |-> BuildGraph(<<>>, <<>>), order |-> <<>>, pos |-> 0,
   results |-> EmptyDict, ret |-> EmptyDict, calls |-> <<>>, failed |-> {},
   count |-> 0]

\* WorkflowEngine.run_workflow up to the call of _execute_nodes.
RunWorkflowEntry(obj, w, origin) ==
  LET G    == BuildGraph(w.nodes, w.edges)
      eo   == GetExecutionOrder(G)
      base == [IdleRun EXCEPT !.obj = obj, !.origin = origin, !.graph = G]
  IN IF eo.kind = "raise" THEN [base EXCEPT !.pc = "done", !.ret = FailedError]
     ELSE IF NotTruthy(eo) THEN [base EXCEPT !.pc = "done", !.ret = CycleError]
     ELSE [base EXCEPT !.pc = "exec", !.order = eo.order, !.pos = 1]

\* The ids of the nodes of a type.
NodesOfType(w, type) ==
  {w.nodes[i].id : i \in {j \in 1..Len(w.nodes) : w.nodes[j].type = type}}

\* Mutant: only the first webhook node is registered.
RegisterFirstWebhookOnly(sw, obj, w) ==
  LET idx   == {j \in 1..Len(w.nodes) : w.nodes[j].type = "webhook"}
      hooks == {w.nodes[i].id : i \in {j \in idx : \A q \in idx : j <= q}}
  IN [k \in (DOMAIN sw) \cup hooks |-> IF k \in hooks THEN obj ELSE sw[k]]

\* Mutant: the webhook nodes are registered once the execution order is found.
RegisterWebhooksIfAcyclic(sw, obj, w) ==
  LET hooks == IF NotTruthy(GetExecutionOrder(BuildGraph(w.nodes, w.edges)))
               THEN {} ELSE NodesOfType(w, "webhook")
  IN [k \in (DOMAIN sw) \cup hooks |-> IF k \in hooks THEN obj ELSE sw[k]]

\* WorkflowEngine._register_webhook_workflows: every webhook node id becomes
\* a key of stored_workflows for the Node objects of this run.
RegisterWebhookWorkflows(sw, obj, w) ==
  LET hooks == {w.nodes[i].id : i \in {j \in 1..Len(w.nodes) : w.nodes[j].type = "webhook"}}
  IN [k \in (DOMAIN sw) \cup hooks |-> IF k \in hooks THEN obj ELSE sw[k]]

\* The input_data dictionary of _execute_nodes.
InputData(run, n) == [p \in Predecessors(run.graph, n) |-> Get(run.results, p)]

\* Mutant: the executor of the next node of the order is started together
\* with that of order[pos], before either has returned.
InvokeStepWithNext(run, w) ==
  LET n == run.order[run.pos]
      call(x) == [node       |-> x,
                  input_data |-> InputData(run, x),
                  stored     |-> DOMAIN run.results,
                  data       |-> Get(w.data, x)]
  IN IF n \notin run.graph.hasData
     THEN [run EXCEPT !.pc = "done", !.ret = FailedError]
     ELSE [run EXCEPT !.pc = "await",
                      !.calls = IF run.pos < Len(run.order)
                                THEN @ \o <<call(n), call(run.order[run.pos + 1])>>
                                ELSE Append(@, call(n))]

\* _execute_nodes: the executor of order[pos] is invoked with its context.
\* graph.nodes[node_id]["data"] raises KeyError for a node without the data
\* attribute; run_workflow's handler turns it into the error return.
InvokeStep(run, w) ==
  LET n == run.order[run.pos]
  IN IF n \notin run.graph.hasData
     THEN [run EXCEPT !.pc = "done", !.ret = FailedError]
     ELSE [run EXCEPT !.pc = "await",
                      !.calls = Append(@, [node       |-> n,
                                           input_data |-> InputData(run, n),
                                           stored     |-> DOMAIN run.results,
                                           data       |-> Get(w.data, n)])]

\* Mutant: a failed node ends the loop.
ReturnStepHaltOnFailure(run, w, out) ==
  LET n    == run.order[run.pos]
      rs   == Put(run.results, n, out.res)
      last == run.pos = Len(run.order) \/ ~out.ok
  IN [run EXCEPT !.results = rs,
                 !.failed  = IF out.ok THEN @ ELSE @ \cup {n},
                 !.pos     = IF last THEN @ ELSE @ + 1,
                 !.pc      = IF last THEN "done" ELSE "exec",
                 !.ret     = IF last THEN rs ELSE @]

\* Mutant: a node that failed is executed once more.
ReturnStepRetryOnce(run, w, out) ==
  LET n     == run.order[run.pos]
      res   == ExecuteSingleNode(NodeOf(w, n).type, out)
      rs    == Put(run.results, n, res)
      retry == ~out.ok /\ n \notin run.failed
      last  == run.pos = Len(run.order) /\ ~retry
  IN [run EXCEPT !.results = IF retry THEN @ ELSE rs,
                 !.failed  = IF out.ok THEN @ ELSE @ \cup {n},
                 !.pos     = IF last \/ retry THEN @ ELSE @ + 1,
                 !.pc      = IF last THEN "done" ELSE "exec",
                 !.ret     = IF last THEN rs ELSE @]

\* _execute_nodes: the executor returned; results[node_id] = result, then the
\* next node, or `return results` after the last one.
ReturnStep(run, w, out) ==
  LET n    == run.order[run.pos]
      res  == ExecuteSingleNode(NodeOf(w, n).type, out)
      rs   == Put(run.results, n, res)
      last == run.pos = Len(run.order)
  IN [run EXCEPT !.results = rs,
                 !.failed  = IF out.ok THEN @ ELSE @ \cup {n},
                 !.pos     = IF last THEN @ ELSE @ + 1,
                 !.pc      = IF last THEN "done" ELSE "exec",
                 !.ret     = IF last THEN rs ELSE @]

\* The outcomes of the executor the run is at, by whether it suspended.
OutcomesAt(run, w, awaits) ==
  {o \in Outcomes(NodeOf(w, run.order[run.pos]).type) : o.awaits = awaits}

\* The coroutine of a run from one suspension to the next: the executors
\* are invoked one after the other until one suspends in its external call
\* or the run returns.  The set of the run records that can result.
RECURSIVE Proceed(_, _)
Proceed(run, w) ==
  IF run.pc # "exec" THEN {run}
  ELSE LET inv == InvokeStep(run, w)
       IN IF inv.pc = "done" THEN {inv}
          ELSE (IF OutcomesAt(inv, w, TRUE) # {} THEN {inv} ELSE {})
               \cup UNION {Proceed(ReturnStep(inv, w, out), w) :
                              out \in OutcomesAt(inv, w, FALSE)}

(***************************************************************************)
(* Responses and the registration history.  reply is an observation: the  *)
(* response the step just taken gave, NoReply if it gave none.  A          *)
(* specification that does not look at the responses starts it at          *)
(* Unobserved, and then it never changes.                                  *)
(***************************************************************************)
\* The response of a handler: its key ("message", "error", ...) and what
\* is under it, and the request it answers.
Response(op, id, key, body) ==
  [key |-> key, body |-> body, about |-> [op |-> op, id |-> id]]

NoReply == Response(None, None, None, None)

Unobserved == Response(None, None, "unobserved", None)

Respond(x) == IF reply.key = "unobserved" THEN reply ELSE x

\* The step returns nothing to a client.
Silent == reply' = Respond(NoReply)

NoLatest == [flow |-> EmptyDict, cron |-> EmptyDict, registered |-> EmptyDict]

(***************************************************************************)
(* Actions of an engine run.                                               *)
(***************************************************************************)
\* run_workflow_engine(nodes, edges) called directly on workflow object obj,
\* up to its first suspension.
RunWorkflow(r, obj) ==
  /\ runs[r].pc = "idle"
  /\ runs' \in {[runs EXCEPT ![r] = x] :
                  x \in Proceed(RunWorkflowEntry(obj, heap[obj], NoOrigin), heap[obj])}
  /\ stored_workflows' = RegisterWebhookWorkflows(stored_workflows, obj, heap[obj])
  /\ latest' = [latest EXCEPT !.flow = RegisterWebhookWorkflows(@, obj, heap[obj])]
  /\ Silent
  /\ UNCHANGED <<heap, db, textVars, schedVars, brokerVars>>

\* The external call of a scheduled run takes until the time the run is to
\* end; the other runs are not timed.
CallCompletes(run) == run.origin.kind = "fire" => run.origin.ends = now

\* The external call of the suspended executor completes: the run resumes
\* and goes on to its next suspension.
ExecutorReturns(r) ==
  /\ runs[r].pc = "await"
  /\ CallCompletes(runs[r])
  /\ \E out \in OutcomesAt(runs[r], heap[runs[r].obj], TRUE) :
       runs' \in {[runs EXCEPT ![r] = x] :
                    x \in Proceed(ReturnStep(runs[r], heap[runs[r].obj], out),
                                  heap[runs[r].obj])}
  /\ Silent
  /\ UNCHANGED <<heap, stored_workflows, latest, db, textVars, schedVars, brokerVars>>

(***************************************************************************)
(* The database: MongoDB through motor, or the InMemoryDatabase.           *)
(*   in_memory_mode      - db.in_memory_mode                               *)
(*   state               - of the MongoDB server: "ok", "readonly" (writes *)
(*                         fail, reads are served) or "down" (every        *)
(*                         operation fails); the in-memory mode is "ok"    *)
(*   users               - _id -> document: profile, the other top-level   *)
(*                         keys written by $set (top), api_keys            *)
(*   workflow_executions - the inserted execution documents, in order      *)
(***************************************************************************)
\* The ids of the authenticated users; "1" is the test user of create_test_data.
Users == {"1"}

\* profile.execution_count of the user document when it is created: by
\* create_user, and by create_test_data for the in-memory test user.
InitialCount(in_memory_mode) == IF in_memory_mode THEN 5 ELSE 0

NewUser(in_memory_mode) ==
  [profile  |-> [execution_count |-> InitialCount(in_memory_mode)],
   top      |-> EmptyDict,
   api_keys |-> EmptyDict]

Database(in_memory_mode, state) ==
  [in_memory_mode      |-> in_memory_mode,
   state               |-> state,
   users               |-> [u \in Users |-> NewUser(in_memory_mode)],
   workflow_executions |-> <<>>]

\* An operation of a collection raises: the in-memory collections never do.
WriteRaises(d) == ~d.in_memory_mode /\ d.state # "ok"

ReadRaises(d) == ~d.in_memory_mode /\ d.state = "down"

\* "success" if not result.get("error") else "failed"
Status(result) ==
  IF "error" \in DOMAIN result /\ result["error"] # "" THEN "failed" ELSE "success"

\* The nodes_dict of run_workflow: id, type and the data dictionary of
\* every node as it is when the history is saved.
NodesDict(w) ==
  [i \in 1..Len(w.nodes) |->
     [id |-> w.nodes[i].id, type |-> w.nodes[i].type, data |-> w.data[w.nodes[i].id]]]

\* save_execution_history: insert_one of the execution document; an
\* exception is re-raised to the caller.
SaveExecutionHistory(d, user_id, nodes, edges, result) ==
  IF WriteRaises(d)
  THEN [raised |-> TRUE, db |-> d]
  ELSE [raised |-> FALSE,
        db |-> [d EXCEPT !.workflow_executions =
                  Append(@, [user_id     |-> user_id,
                             workflow_id |-> None,
                             nodes       |-> nodes,
                             edges       |-> edges,
                             result      |-> result,
                             status      |-> Status(result)])]]

\* get_user_by_id: find_one by _id; an exception gives None.
GetUserById(d, user_id) == IF ReadRaises(d) THEN None ELSE Get(d.users, user_id)

\* `if user:` of the callers of get_user_by_id.
UserFound(d, user_id) == ~ReadRaises(d) /\ user_id \in DOMAIN d.users

\* user.get("profile", {}).get("execution_count", 0)
ExecutionCount(user) == user.profile.execution_count

\* Mutant: the in-memory update_one resolves the dotted key as MongoDB does.
UpdateOneSetNested(d, user_id, count) ==
  [d EXCEPT !.users[user_id].profile.execution_count = count]

\* update_one(query, {"$set": {"profile.execution_count": count}}) on the
\* users collection: MongoDB sets the field execution_count of the embedded
\* document profile; InMemoryCollection.update_one does doc[key] = value
\* with the dotted name as the key.
UpdateOneSet(d, user_id, count) ==
  IF d.in_memory_mode
  THEN [d EXCEPT !.users[user_id].top = Put(@, "profile.execution_count", count)]
  ELSE [d EXCEPT !.users[user_id].profile.execution_count = count]

\* update_user_stats(user_id, {"execution_count": count}); an exception
\* gives False and changes nothing.
UpdateUserStats(d, user_id, count) ==
  IF WriteRaises(d) \/ user_id \notin DOMAIN d.users THEN d
  ELSE UpdateOneSet(d, user_id, count)

\* Mutant: a failed history write ends the handler with the error response.
RecordStepAbortOnFailure(d, user_id, w, result) ==
  LET saved == SaveExecutionHistory(d, user_id, NodesDict(w), w.edges, result)
  IN IF saved.raised
     THEN [db |-> saved.db, found |-> FALSE, user |-> None,
           response |-> Response("run", None, "error", EmptyDict)]
     ELSE [db |-> saved.db, found |-> UserFound(saved.db, user_id),
           user |-> GetUserById(saved.db, user_id),
           response |-> Response("run", None, "message", result)]

\* run_workflow of main.py after the engine returned result: the history
\* write in its own try, then the read of the user in the next try; the
\* response the handler is going to give.
RecordStep(d, user_id, w, result) ==
  LET saved == SaveExecutionHistory(d, user_id, NodesDict(w), w.edges, result)
  IN [db |-> saved.db, found |-> UserFound(saved.db, user_id),
      user |-> GetUserById(saved.db, user_id),
      response |-> Response("run", None, "message", result)]

\* The recording variables where no handler has answered, nothing is
\* registered and the MongoDB server is out of reach.
RecordIdle ==
  /\ latest = NoLatest
  /\ reply = Unobserved
  /\ db = Database(FALSE, "down")

\* No APIKeyManager exists and no credential variable is set.
BrokerIdle ==
  /\ broker = <<>>
  /\ environ = EmptyDict

(***************************************************************************)
(* Spec: one engine run on an arbitrary workflow of the bounded family.    *)
(***************************************************************************)
\* The variables of the text model while no predecessor result is examined.
TextIdle ==
  /\ pred_result = <<>>
  /\ producer = [kind |-> None, ok |-> TRUE]
  /\ absorbed = EmptyDict

\* The schedulers right after BackgroundScheduler().start(): no job.
SchedIdle ==
  /\ now = 0
  /\ jobs = EmptyDict
  /\ instances = EmptyDict
  /\ fired = EmptyDict

Init ==
  /\ \E w \in Workflows : heap = [o \in {1} |-> w]
  /\ stored_workflows = EmptyDict
  /\ runs = [r \in {1} |-> IdleRun]
  /\ TextIdle
  /\ SchedIdle
  /\ RecordIdle
  /\ BrokerIdle

Next ==
  \/ RunWorkflow(1, 1)
  \/ ExecutorReturns(1)

Spec == Init /\ [][Next]_vars

(***************************************************************************)
(* Graph notions used to state the claims, defined on the workflow itself  *)
(* (independently of the engine's graph and sort).                         *)
(***************************************************************************)
NodeIdsOf(w) == {w.nodes[i].id : i \in 1..Len(w.nodes)}

EdgesOf(w) == SeqSet(w.edges)

Dangling(w) ==
  \E e \in EdgesOf(w) : e.source \notin NodeIdsOf(w) \/ e.target \notin NodeIdsOf(w)

RECURSIVE ReachableFrom(_, _, _)
ReachableFrom(E, frontier, seen) ==
  LET nxt == {e.target : e \in {x \in E : x.source \in frontier}} \ seen
  IN IF nxt = {} THEN seen ELSE ReachableFrom(E, nxt, seen \cup nxt)

\* n lies on a cycle when it is reachable from itself in one or more steps.
HasCycle(w) ==
  \E e \in EdgesOf(w) : e.source \in ReachableFrom(EdgesOf(w), {e.source}, {})

IsDAG(w) == ~HasCycle(w) /\ ~Dangling(w)

FailureStrings(kind) == {o.res : o \in {x \in Outcomes(kind) : ~x.ok}}

\* The single run and workflow of Spec.
R == runs[1]
W == heap[1]

(***************************************************************************)
(* C1: for any DAG, the map the engine run returns has exactly one entry   *)
(* per node id (its key set is the set of node ids of the workflow).       *)
(* Stated as the claim states it; fails for the empty workflow (see C4).   *)
(***************************************************************************)
C1_ResultKeysAreNodeIds ==
  (R.pc = "done" /\ IsDAG(W)) => DOMAIN R.ret = NodeIdsOf(W)

(***************************************************************************)
(* C2: for every edge P -> N the executor of N is invoked only after P's   *)
(* result is stored in the run's result map; with two predecessors A and B *)
(* of N both have completed before N starts.                               *)
(***************************************************************************)
C2_PredecessorsStoredFirst ==
  \A i \in 1..Len(R.calls) :
    \A e \in EdgesOf(W) :
      e.target = R.calls[i].node =>
        /\ e.source \in R.calls[i].stored
        /\ e.source \in DOMAIN R.calls[i].input_data
        /\ R.calls[i].input_data[e.source] # None
        /\ \E j \in 1..(i - 1) : R.calls[j].node = e.source

C2_Witness ==
  \E i \in 1..Len(R.calls) :
    Cardinality({e.source : e \in {x \in EdgesOf(W) : x.target = R.calls[i].node}}) = 2

(***************************************************************************)
(* C3: for a workflow whose edges contain a cycle (a self-loop included)   *)
(* the run returns {error: "Cycle detected in workflow"} and no node       *)
(* executor is invoked.                                                    *)
(***************************************************************************)
C3_CycleRejected ==
  (HasCycle(W) /\ R.pc # "idle") =>
    /\ R.pc = "done"
    /\ R.ret = [error |-> "Cycle detected in workflow"]
    /\ R.calls = <<>>

C3_Witness ==
  /\ R.pc = "done"
  /\ Len(W.nodes) = 3
  /\ \E e \in EdgesOf(W) : e.source # e.target /\ e.source \in ReachableFrom(EdgesOf(W), {e.source}, {})
  /\ \E n \in NodeIdsOf(W) : \A e \in EdgesOf(W) : e.source # n /\ e.target # n

(***************************************************************************)
(* C4: a run on a workflow with no nodes and no edges returns the empty    *)
(* result map {} and no error.                                             *)
(***************************************************************************)
C4_EmptyWorkflowEmptyMap ==
  (R.pc = "done" /\ W.nodes = <<>> /\ W.edges = <<>>) =>
    (R.ret = EmptyDict /\ "error" \notin DOMAIN R.ret)

(***************************************************************************)
(* C5: if some edge has a source or target that is no node of the workflow *)
(* the run returns an {error: ...} result and no node executor is invoked. *)
(***************************************************************************)
C5_DanglingRejected ==
  (Dangling(W) /\ R.pc # "idle") =>
    /\ R.pc = "done"
    /\ DOMAIN R.ret = {"error"}
    /\ R.calls = <<>>

C5_Witness ==
  /\ R.pc = "done"
  /\ Dangling(W) /\ ~HasCycle(W)
  /\ Len(W.nodes) >= 2
  /\ \E e \in EdgesOf(W) : e.source \in NodeIdsOf(W) /\ e.target \in NodeIdsOf(W)

(***************************************************************************)
(* C6: a node failure does not halt the run: the failure string is stored  *)
(* as the node's result, every later node of the order is still executed,  *)
(* and each successor of the failed node gets the failure string in its    *)
(* predecessor map.                                                        *)
(***************************************************************************)
C6_FailureDoesNotHalt ==
  /\ \A n \in R.failed :
       /\ n \in DOMAIN R.results
       /\ R.results[n] \in FailureStrings(NodeOf(W, n).type)
  /\ (R.pc = "done" /\ R.failed # {}) =>
       /\ {R.calls[i].node : i \in 1..Len(R.calls)} = NodeIdsOf(W)
       /\ DOMAIN R.ret = NodeIdsOf(W)
       /\ \A n \in R.failed : R.ret[n] = R.results[n]
  /\ \A i \in 1..Len(R.calls) :
       \A e \in EdgesOf(W) :
         (e.target = R.calls[i].node /\ e.source \in R.failed) =>
           /\ e.source \in DOMAIN R.calls[i].input_data
           /\ R.calls[i].input_data[e.source] \in FailureStrings(NodeOf(W, e.source).type)

C6_Witness ==
  /\ R.pc = "done"
  /\ \E e \in EdgesOf(W) :
       /\ e.source \in R.failed
       /\ \E i \in 1..Len(R.calls) : R.calls[i].node = e.target
       /\ e.target \notin R.failed

(***************************************************************************)
(* Result strings as sequences of characters, and the text tests the       *)
(* downstream executors apply to a predecessor result.                     *)
(***************************************************************************)
\* "No prompt provided for "
S_NoPromptFor ==
  <<"N", "o", " ", "p", "r", "o", "m", "p", "t", " ", "p", "r", "o", "v", "i", "d", "e", "d", " ", "f", "o", "r", " ">>
\* " node"
S_Node ==
  <<" ", "n", "o", "d", "e">>
\* "Error executing "
S_ErrorExecuting ==
  <<"E", "r", "r", "o", "r", " ", "e", "x", "e", "c", "u", "t", "i", "n", "g", " ">>
\* " node: "
S_NodeColon ==
  <<" ", "n", "o", "d", "e", ":", " ">>
\* "File not found at path: "
S_FileNotFoundAt ==
  <<"F", "i", "l", "e", " ", "n", "o", "t", " ", "f", "o", "u", "n", "d", " ", "a", "t", " ", "p", "a", "t", "h", ":", " ">>
\* "File upload failed: Unknown error"
S_FileUploadFailed ==
  <<"F", "i", "l", "e", " ", "u", "p", "l", "o", "a", "d", " ", "f", "a", "i", "l", "e", "d", ":", " ", "U", "n", "k", "n", "o", "w", "n", " ", "e", "r", "r", "o", "r">>
\* "Image prompt is required"
S_ImagePromptRequired ==
  <<"I", "m", "a", "g", "e", " ", "p", "r", "o", "m", "p", "t", " ", "i", "s", " ", "r", "e", "q", "u", "i", "r", "e", "d">>
\* "Error generating image: "
S_ErrorGeneratingImage ==
  <<"E", "r", "r", "o", "r", " ", "g", "e", "n", "e", "r", "a", "t", "i", "n", "g", " ", "i", "m", "a", "g", "e", ":", " ">>
\* " node not implemented"
S_NotImplemented ==
  <<" ", "n", "o", "d", "e", " ", "n", "o", "t", " ", "i", "m", "p", "l", "e", "m", "e", "n", "t", "e", "d">>
\* "Error: No file path provided"
S_ErrNoFilePath ==
  <<"E", "r", "r", "o", "r", ":", " ", "N", "o", " ", "f", "i", "l", "e", " ", "p", "a", "t", "h", " ", "p", "r", "o", "v", "i", "d", "e", "d">>
\* "Document parsing failed: "
S_DocParsingFailed ==
  <<"D", "o", "c", "u", "m", "e", "n", "t", " ", "p", "a", "r", "s", "i", "n", "g", " ", "f", "a", "i", "l", "e", "d", ":", " ">>
\* "Webhook request timed out after 30 seconds"
S_WebhookTimedOut ==
  <<"W", "e", "b", "h", "o", "o", "k", " ", "r", "e", "q", "u", "e", "s", "t", " ", "t", "i", "m", "e", "d", " ", "o", "u", "t", " ", "a", "f", "t", "e", "r", " ", "3", "0", " ", "s", "e", "c", "o", "n", "d", "s">>
\* "Error: Email recipient (to) field is required"
S_ErrRecipient ==
  <<"E", "r", "r", "o", "r", ":", " ", "E", "m", "a", "i", "l", " ", "r", "e", "c", "i", "p", "i", "e", "n", "t", " ", "(", "t", "o", ")", " ", "f", "i", "e", "l", "d", " ", "i", "s", " ", "r", "e", "q", "u", "i", "r", "e", "d">>
\* "Discord webhook URL is required"
S_DiscordUrlRequired ==
  <<"D", "i", "s", "c", "o", "r", "d", " ", "w", "e", "b", "h", "o", "o", "k", " ", "U", "R", "L", " ", "i", "s", " ", "r", "e", "q", "u", "i", "r", "e", "d">>
\* "Error: OpenAI API key not configured"
S_ErrOpenAIKey ==
  <<"E", "r", "r", "o", "r", ":", " ", "O", "p", "e", "n", "A", "I", " ", "A", "P", "I", " ", "k", "e", "y", " ", "n", "o", "t", " ", "c", "o", "n", "f", "i", "g", "u", "r", "e", "d">>
\* "Error: quota"
S_ErrQuota ==
  <<"E", "r", "r", "o", "r", ":", " ", "q", "u", "o", "t", "a">>
\* "connection reset"
S_Boom ==
  <<"c", "o", "n", "n", "e", "c", "t", "i", "o", "n", " ", "r", "e", "s", "e", "t">>
\* "uploads/a.pdf"
S_PathPdf ==
  <<"u", "p", "l", "o", "a", "d", "s", "/", "a", ".", "p", "d", "f">>
\* "HELLO SUMMARY"
S_Hello ==
  <<"H", "E", "L", "L", "O", " ", "S", "U", "M", "M", "A", "R", "Y">>
\* "The error rate fell by half"
S_ErrorRate ==
  <<"T", "h", "e", " ", "e", "r", "r", "o", "r", " ", "r", "a", "t", "e", " ", "f", "e", "l", "l", " ", "b", "y", " ", "h", "a", "l", "f">>
\* "Hi there"
S_Short ==
  <<"H", "i", " ", "t", "h", "e", "r", "e">>
\* "Email sent successfully to u@x.test"
S_EmailSent ==
  <<"E", "m", "a", "i", "l", " ", "s", "e", "n", "t", " ", "s", "u", "c", "c", "e", "s", "s", "f", "u", "l", "l", "y", " ", "t", "o", " ", "u", "@", "x", ".", "t", "e", "s", "t">>
\* "Image generated: generated_images/i.png"
S_ImageGenerated ==
  <<"I", "m", "a", "g", "e", " ", "g", "e", "n", "e", "r", "a", "t", "e", "d", ":", " ", "g", "e", "n", "e", "r", "a", "t", "e", "d", "_", "i", "m", "a", "g", "e", "s", "/", "i", ".", "p", "n", "g">>
\* "Report generated: generated_reports/r.pdf"
S_ReportGenerated ==
  <<"R", "e", "p", "o", "r", "t", " ", "g", "e", "n", "e", "r", "a", "t", "e", "d", ":", " ", "g", "e", "n", "e", "r", "a", "t", "e", "d", "_", "r", "e", "p", "o", "r", "t", "s", "/", "r", ".", "p", "d", "f">>
\* "Document parsed: parsed_documents/d.json"
S_DocumentParsed ==
  <<"D", "o", "c", "u", "m", "e", "n", "t", " ", "p", "a", "r", "s", "e", "d", ":", " ", "p", "a", "r", "s", "e", "d", "_", "d", "o", "c", "u", "m", "e", "n", "t", "s", "/", "d", ".", "j", "s", "o", "n">>
\* "File uploaded: https://drive.google.com/file/d/1/view"
S_FileUploaded ==
  <<"F", "i", "l", "e", " ", "u", "p", "l", "o", "a", "d", "e", "d", ":", " ", "h", "t", "t", "p", "s", ":", "/", "/", "d", "r", "i", "v", "e", ".", "g", "o", "o", "g", "l", "e", ".", "c", "o", "m", "/", "f", "i", "l", "e", "/", "d", "/", "1", "/", "v", "i", "e", "w">>
\* "Webhook triggered (no URL provided)"
S_WebhookNoUrl ==
  <<"W", "e", "b", "h", "o", "o", "k", " ", "t", "r", "i", "g", "g", "e", "r", "e", "d", " ", "(", "n", "o", " ", "U", "R", "L", " ", "p", "r", "o", "v", "i", "d", "e", "d", ")">>
\* "Schedule set: */1 * * * *"
S_ScheduleSet ==
  <<"S", "c", "h", "e", "d", "u", "l", "e", " ", "s", "e", "t", ":", " ", "*", "/", "1", " ", "*", " ", "*", " ", "*", " ", "*">>
\* "gpt"
S_gpt ==
  <<"g", "p", "t">>
\* "claude"
S_claude ==
  <<"c", "l", "a", "u", "d", "e">>
\* "email"
S_email ==
  <<"e", "m", "a", "i", "l">>
\* "Discord"
S_Discord ==
  <<"D", "i", "s", "c", "o", "r", "d">>
\* "foo"
S_foo ==
  <<"f", "o", "o">>
\* "failed"
T_failed ==
  <<"f", "a", "i", "l", "e", "d">>
\* "error"
T_error ==
  <<"e", "r", "r", "o", "r">>
\* "not implemented"
T_not_implemented ==
  <<"n", "o", "t", " ", "i", "m", "p", "l", "e", "m", "e", "n", "t", "e", "d">>
\* "sent successfully"
T_sent_successfully ==
  <<"s", "e", "n", "t", " ", "s", "u", "c", "c", "e", "s", "s", "f", "u", "l", "l", "y">>
\* "uploaded"
T_uploaded ==
  <<"u", "p", "l", "o", "a", "d", "e", "d">>
\* "generated:"
T_generated ==
  <<"g", "e", "n", "e", "r", "a", "t", "e", "d", ":">>
\* "deleted"
T_deleted ==
  <<"d", "e", "l", "e", "t", "e", "d">>
\* "saved"
T_saved ==
  <<"s", "a", "v", "e", "d">>
\* "webhook"
T_webhook ==
  <<"w", "e", "b", "h", "o", "o", "k">>
\* "document parsed:"
T_document_parsed ==
  <<"d", "o", "c", "u", "m", "e", "n", "t", " ", "p", "a", "r", "s", "e", "d", ":">>
\* "Report generated:"
G_ReportGenerated ==
  <<"R", "e", "p", "o", "r", "t", " ", "g", "e", "n", "e", "r", "a", "t", "e", "d", ":">>
\* "Document parsed:"
G_DocumentParsed ==
  <<"D", "o", "c", "u", "m", "e", "n", "t", " ", "p", "a", "r", "s", "e", "d", ":">>
\* "Image generated:"
G_ImageGenerated ==
  <<"I", "m", "a", "g", "e", " ", "g", "e", "n", "e", "r", "a", "t", "e", "d", ":">>
\* "File uploaded:"
G_FileUploaded ==
  <<"F", "i", "l", "e", " ", "u", "p", "l", "o", "a", "d", "e", "d", ":">>
\* "Email sent successfully"
G_EmailSent ==
  <<"E", "m", "a", "i", "l", " ", "s", "e", "n", "t", " ", "s", "u", "c", "c", "e", "s", "s", "f", "u", "l", "l", "y">>
\* "Webhook"
G_Webhook ==
  <<"W", "e", "b", "h", "o", "o", "k">>
\* "executed successfully"
G_ExecutedSuccessfully ==
  <<"e", "x", "e", "c", "u", "t", "e", "d", " ", "s", "u", "c", "c", "e", "s", "s", "f", "u", "l", "l", "y">>
\* "ABCDEFGHIJKLMNOPQRSTUVWXYZ"
UpperLetters ==
  <<"A", "B", "C", "D", "E", "F", "G", "H", "I", "J", "K", "L", "M", "N", "O", "P", "Q", "R", "S", "T", "U", "V", "W", "X", "Y", "Z">>
\* "abcdefghijklmnopqrstuvwxyz"
LowerLetters ==
  <<"a", "b", "c", "d", "e", "f", "g", "h", "i", "j", "k", "l", "m", "n", "o", "p", "q", "r", "s", "t", "u", "v", "w", "x", "y", "z">>

\* str.lower() on one character.
LowerChar(c) ==
  IF \E i \in 1..Len(UpperLetters) : UpperLetters[i] = c
  THEN LowerLetters[CHOOSE i \in 1..Len(UpperLetters) : UpperLetters[i] = c]
  ELSE c

Lower(s) == [i \in 1..Len(s) |-> LowerChar(s[i])]

\* `t in s` on strings.
Contains(s, t) ==
  \E i \in 0..(Len(s) - Len(t)) : \A j \in 1..Len(t) : s[i + j] = t[j]

\* str.strip()
RECURSIVE LStrip(_)
LStrip(s) == IF s # <<>> /\ Head(s) = " " THEN LStrip(Tail(s)) ELSE s

RECURSIVE RStrip(_)
RStrip(s) ==
  IF s # <<>> /\ s[Len(s)] = " " THEN RStrip(SubSeq(s, 1, Len(s) - 1)) ELSE s

Strip(s) == RStrip(LStrip(s))

MinAiLen == 10

ExcludedTerms ==
  {T_failed, T_error, T_not_implemented, T_sent_successfully, T_uploaded,
   T_generated, T_deleted, T_saved, T_webhook, T_document_parsed}

\* ContentProcessor._is_ai_content
IsAiContent(s) ==
  IF Len(Strip(s)) <= MinAiLen THEN FALSE
  ELSE ~(\E term \in ExcludedTerms : Contains(Lower(s), term))

\* ContentProcessor.extract_ai_content, as EmailNodeExecutor uses it.
EmailTakes(s) == IF IsAiContent(s) THEN "ai" ELSE "skipped"

\* DiscordNodeExecutor._create_embed_from_result
DiscordTakes(s) ==
  IF Contains(s, G_ReportGenerated) THEN "report"
  ELSE IF Contains(s, G_DocumentParsed) THEN "document"
  ELSE IF Contains(s, G_ImageGenerated) THEN "image"
  ELSE IF IsAiContent(s) THEN "ai"
  ELSE "skipped"

\* ImageGenerationNodeExecutor._get_prompt with an empty configured prompt.
ImageTakes(s) == IF IsAiContent(s) THEN "ai" ELSE "skipped"

\* WorkflowEngine._execute_report_generator
ReportTakes(s) ==
  IF Contains(s, G_FileUploaded) THEN "file"
  ELSE IF Contains(s, G_DocumentParsed) THEN "document"
  ELSE IF IsAiContent(s) THEN "ai"
  ELSE IF Contains(s, G_ImageGenerated) THEN "image"
  ELSE IF Contains(s, G_EmailSent) THEN "email"
  ELSE IF Contains(s, G_Webhook) /\ Contains(s, G_ExecutedSuccessfully) THEN "webhook"
  ELSE "generic"

(***************************************************************************)
(* The result strings of the executors: [kind, ok, text].  ok = FALSE are  *)
(* the failure paths.                                                      *)
(***************************************************************************)
Res(kind, ok, text) == [kind |-> kind, ok |-> ok, text |-> text]

ExecutorResults ==
  { \* AINodeExecutor.execute
    Res("gpt", FALSE, S_NoPromptFor \o S_gpt \o S_Node),
    Res("claude", FALSE, S_NoPromptFor \o S_claude \o S_Node),
    Res("gpt", FALSE, S_ErrorExecuting \o S_gpt \o S_NodeColon \o S_Boom),
    Res("gpt", FALSE, S_ErrQuota),
    Res("gpt", TRUE, S_Hello),
    Res("gpt", TRUE, S_Short),
    Res("gpt", TRUE, S_ErrorRate),
    \* EmailNodeExecutor.execute
    Res("email", FALSE, S_ErrorExecuting \o S_email \o S_NodeColon \o S_Boom),
    Res("email", FALSE, S_ErrRecipient),
    Res("email", TRUE, S_EmailSent),
    \* DiscordNodeExecutor.execute
    Res("discord", FALSE, S_ErrorExecuting \o S_Discord \o S_NodeColon \o S_DiscordUrlRequired),
    \* FileUploadNodeExecutor.execute
    Res("file_upload", FALSE, S_FileNotFoundAt \o S_PathPdf),
    Res("file_upload", FALSE, S_FileNotFoundAt),
    Res("file_upload", FALSE, S_FileUploadFailed),
    Res("file_upload", TRUE, S_FileUploaded),
    \* ImageGenerationNodeExecutor.execute
    Res("image_generation", FALSE, S_ImagePromptRequired),
    Res("image_generation", FALSE, S_ErrorGeneratingImage \o S_Boom),
    Res("image_generation", FALSE, S_ErrOpenAIKey),
    Res("image_generation", TRUE, S_ImageGenerated),
    \* _execute_legacy_node
    Res("webhook", FALSE, S_WebhookTimedOut),
    Res("webhook", TRUE, S_WebhookNoUrl),
    Res("schedule", TRUE, S_ScheduleSet),
    Res("document_parser", FALSE, S_ErrNoFilePath),
    Res("document_parser", FALSE, S_DocParsingFailed \o S_Boom),
    Res("document_parser", TRUE, S_DocumentParsed),
    Res("report_generator", TRUE, S_ReportGenerated),
    Res("foo", FALSE, S_foo \o S_NotImplemented) }

Absorbers == {"email", "discord", "image_generation", "report_generator"}

Takes(consumer, s) ==
  IF consumer = "email" THEN EmailTakes(s)
  ELSE IF consumer = "discord" THEN DiscordTakes(s)
  ELSE IF consumer = "image_generation" THEN ImageTakes(s)
  ELSE ReportTakes(s)

\* A downstream executor of kind consumer examines the predecessor result.
Absorb(consumer) ==
  /\ consumer \notin DOMAIN absorbed
  /\ absorbed' = Put(absorbed, consumer, Takes(consumer, pred_result))
  /\ UNCHANGED <<pred_result, producer, engineVars, schedVars, recordVars, brokerVars>>

EmailAbsorbs  == Absorb("email")
DiscordAbsorbs == Absorb("discord")
ImageAbsorbs  == Absorb("image_generation")
ReportAbsorbs == Absorb("report_generator")

InitText ==
  /\ \E x \in ExecutorResults :
       /\ pred_result = x.text
       /\ producer = [kind |-> x.kind, ok |-> x.ok]
  /\ absorbed = EmptyDict
  /\ heap = <<>>
  /\ stored_workflows = EmptyDict
  /\ runs = <<>>
  /\ SchedIdle
  /\ RecordIdle
  /\ BrokerIdle

NextText ==
  \/ EmailAbsorbs
  \/ DiscordAbsorbs
  \/ ImageAbsorbs
  \/ ReportAbsorbs

SpecText == InitText /\ [][NextText]_vars

(***************************************************************************)
(* C7: the failure result of a predecessor is never absorbed as            *)
(* AI-generated text: for every failure string an executor can produce,    *)
(* the AI-text test of the email, discord, image_generation and            *)
(* report_generator nodes rejects it.                                      *)
(***************************************************************************)
C7_FailureNeverAbsorbedAsAi ==
  ~producer.ok => \A c \in DOMAIN absorbed : absorbed[c] # "ai"


(***************************************************************************)
(* The webhook handlers of main.py over the shared stored_workflows and    *)
(* concurrently running engine runs.                                       *)
(***************************************************************************)
MaxObjs == 2
MaxRuns == 2

HookIds  == {"X"}
Payloads == {"P1", "P2"}
Sources  == {"S1", "S2"}

\* The request bodies of the register requests: two nodes and the edge
\* between them, of every combination of kinds.
HookFlows ==
  {w \in Workflows : /\ Len(w.nodes) = 2
                     /\ w.edges = <<[source |-> Ids[1], target |-> Ids[2]]>>}

\* The slot a new run takes.
FreeRun(r) ==
  /\ runs[r].pc = "idle"
  /\ \A q \in 1..(r - 1) : runs[q].pc # "idle"

\* The loop of trigger_webhook_workflow: node.data of every webhook node of
\* the stored object is assigned the payload and the source, in place.
InjectPayload(w, payload, source) ==
  [w EXCEPT !.data =
     [n \in DOMAIN w.data |->
        IF NodeOf(w, n).type = "webhook"
        THEN [webhook_payload |-> payload, webhook_source |-> source]
        ELSE w.data[n]]]

\* The heap after the loop of trigger_webhook_workflow.
TriggerHeap(obj, payload, source) ==
  [heap EXCEPT ![obj] = InjectPayload(heap[obj], payload, source)]

\* Mutant: an id that is registered keeps its workflow.
RegisterWebhookKeepFirst(id, flow) ==
  /\ Len(heap) < MaxObjs
  /\ heap' = Append(heap, flow)
  /\ stored_workflows' = IF id \in DOMAIN stored_workflows THEN stored_workflows
                         ELSE Put(stored_workflows, id, Len(heap) + 1)
  /\ latest' = [latest EXCEPT !.flow = Put(@, id, Len(heap) + 1),
                              !.registered = Put(@, id, GetOr(@, id, 0) + 1)]
  /\ reply' = Respond(Response("register", id, "message", "registered"))
  /\ UNCHANGED <<runs, db, textVars, schedVars, brokerVars>>

\* POST /webhook/register/{workflow_id} with the parsed body flow.
RegisterWebhook(id, flow) ==
  /\ Len(heap) < MaxObjs
  /\ heap' = Append(heap, flow)
  /\ stored_workflows' = Put(stored_workflows, id, Len(heap) + 1)
  /\ latest' = [latest EXCEPT !.flow = Put(@, id, Len(heap) + 1),
                              !.registered = Put(@, id, GetOr(@, id, 0) + 1)]
  /\ reply' = Respond(Response("register", id, "message", "registered"))
  /\ UNCHANGED <<runs, db, textVars, schedVars, brokerVars>>

TriggerOrigin(id, payload, source) ==
  [kind |-> "trigger", payload |-> payload, source |-> source, id |-> id]

\* POST /webhook/trigger/{workflow_id} up to the first suspension of the
\* engine run it awaits.
TriggerWebhook(r, id, payload, source) ==
  /\ FreeRun(r)
  /\ id \in DOMAIN stored_workflows
  /\ LET obj == stored_workflows[id]
         hp  == TriggerHeap(obj, payload, source)
     IN /\ heap' = hp
        /\ runs' \in {[runs EXCEPT ![r] = x] :
                       x \in Proceed(RunWorkflowEntry(obj, hp[obj],
                                       TriggerOrigin(id, payload, source)),
                                     hp[obj])}
        /\ stored_workflows' = RegisterWebhookWorkflows(stored_workflows, obj, hp[obj])
        /\ latest' = [latest EXCEPT !.flow = RegisterWebhookWorkflows(@, obj, hp[obj])]
  /\ Silent
  /\ UNCHANGED <<db, textVars, schedVars, brokerVars>>

\* trigger_webhook_workflow returns the result of the run it awaited.
TriggerReturns(r) ==
  /\ runs[r].origin.kind = "trigger"
  /\ runs[r].pc = "done"
  /\ reply' = Respond(Response("trigger", runs[r].origin.id, "message", runs[r].ret))
  /\ runs' = [runs EXCEPT ![r] = IdleRun]
  /\ UNCHANGED <<heap, stored_workflows, latest, db, textVars, schedVars, brokerVars>>

InitWebhook ==
  /\ heap = <<>>
  /\ stored_workflows = EmptyDict
  /\ runs = [r \in 1..MaxRuns |-> IdleRun]
  /\ TextIdle
  /\ SchedIdle
  /\ RecordIdle
  /\ BrokerIdle

NextWebhook ==
  \/ \E id \in HookIds, flow \in HookFlows : RegisterWebhook(id, flow)
  \/ \E r \in 1..MaxRuns, id \in HookIds \cup IdSet(2), payload \in Payloads, source \in Sources :
       TriggerWebhook(r, id, payload, source)
  \/ \E r \in 1..MaxRuns : ExecutorReturns(r)

SpecWebhook == InitWebhook /\ [][NextWebhook]_vars

\* The executor invocations of run r on webhook nodes.
WebhookCalls(r) ==
  {i \in 1..Len(runs[r].calls) :
     NodeOf(heap[runs[r].obj], runs[r].calls[i].node).type = "webhook"}

(***************************************************************************)
(* C8: after a workflow is registered under X, a trigger of X with payload *)
(* P and source S runs it so that every webhook node's configuration has   *)
(* webhook_payload = P and webhook_source = S when its executor is         *)
(* invoked.  Fails when a second trigger of the same stored workflow       *)
(* arrives while the first run is suspended in an executor.                *)
(***************************************************************************)
C8_TriggerPayloadAtInvocation ==
  \A r \in DOMAIN runs :
    runs[r].origin.kind = "trigger" =>
      \A i \in WebhookCalls(r) :
        /\ runs[r].calls[i].data.webhook_payload = runs[r].origin.payload
        /\ runs[r].calls[i].data.webhook_source  = runs[r].origin.source


(***************************************************************************)
(* The schedulers.  main.py and services/scheduler.py each start a         *)
(* BackgroundScheduler of their own; a job is identified by the scheduler  *)
(* and its id.  A job is [cron, next, max_instances]; instances counts the *)
(* running instances of a job id in the scheduler's executor, and outlives *)
(* the removal and the replacement of the job.                             *)
(* Time is counted in ticks of 30 s.                                       *)
(***************************************************************************)
MaxTime == 6
MaxDur  == 3

Schedulers == {"main", "services"}

\* The cron expressions of the requests, and the default of the schedule node.
Crons == {"*/1 * * * *", "*/2 * * * *"}

DefaultCron == "*/1 * * * *"

\* The distance of the fire times of CronTrigger.from_crontab(cron), in
\* ticks: every minute, every second minute.
Period(cron) == IF cron = "*/1 * * * *" THEN 2 ELSE 4

\* The tick of the first full minute: the process starts half a minute
\* before it.
Phase == Period(DefaultCron) \div 2

\* trigger.get_next_fire_time: the first fire time after t.
NextFire(cron, t) == ((t + Period(cron) - Phase) \div Period(cron)) * Period(cron) + Phase

\* f"scheduled_{node.id}"
SchedKey(id) ==
  CASE id = "a" -> "scheduled_a" [] id = "b" -> "scheduled_b" [] id = "c" -> "scheduled_c"
    [] id = "d" -> "scheduled_d" [] id = "e" -> "scheduled_e" [] OTHER -> "scheduled_f"

\* The request bodies of POST /run: a schedule node followed by an AI node.
SchedFlows ==
  {MkWorkflow(<<[id |-> "a", type |-> "schedule"], [id |-> "b", type |-> "gpt"]>>,
              <<[source |-> "a", target |-> "b"]>>)}

SchedIds == {SchedKey("a")}

SchedRuns == MaxRuns

Remove(d, k) == [x \in (DOMAIN d) \ {k} |-> d[x]]

Count(k) == IF k \in DOMAIN instances THEN instances[k] ELSE 0

\* Mutant: a job id that is in the store keeps its job.
AddJobKeepExisting(js, k, cron, t) ==
  IF k \in DOMAIN js THEN js
  ELSE Put(js, k, [cron |-> cron, next |-> NextFire(cron, t), max_instances |-> 1])

\* scheduler.add_job(..., id, replace_existing=True [, max_instances=1]) at t.
AddJob(js, k, cron, t) ==
  Put(js, k, [cron |-> cron, next |-> NextFire(cron, t), max_instances |-> 1])

\* The executor's submit_job refuses the job (MaxInstancesReachedError).
MaxInstancesReached(job, inst) == inst >= job.max_instances

\* Mutant: a refused fire is tried again at the next tick.
ProcessJobRetryRefused(job, inst, t) ==
  [start |-> ~MaxInstancesReached(job, inst),
   next  |-> IF MaxInstancesReached(job, inst) THEN t + 1 ELSE NextFire(job.cron, t)]

\* The scheduler's _process_jobs for a due job at t: the job is submitted or
\* the fire is skipped, and the next fire time is the trigger's next one.
ProcessJob(job, inst, t) ==
  [start |-> ~MaxInstancesReached(job, inst), next |-> NextFire(job.cron, t)]

FireOrigin(k, t, d) ==
  [kind |-> "fire", payload |-> None, source |-> None, job |-> k, ends |-> t + d]

RunOrigin(user) == [kind |-> "run", payload |-> None, source |-> None, user |-> user]

\* node.data.get("cron", "*/1 * * * *") of a schedule node.
NodeCron(node) == IF "cron" \in DOMAIN node THEN node.cron ELSE DefaultCron

FireRuns == {r \in DOMAIN runs : runs[r].origin.kind = "fire"}

\* The history of job k with one more fire: what is "start" (a run that
\* ends at ends was started), "drop" (the executor refused) or "noop" (the
\* workflow id is not stored).
Fired(k, t, what, ends) ==
  IF k \in DOMAIN fired
  THEN [fired EXCEPT ![k] = Append(@, [t |-> t, what |-> what, ends |-> ends])]
  ELSE fired

\* The history when the jobs ks are added anew or removed.
Forget(ks) == [k \in DOMAIN fired |-> IF k \in ks THEN <<>> ELSE fired[k]]

\* POST /run up to the first suspension of the engine run: the pre-pass over
\* the schedule nodes, then run_workflow_engine.
PostRun(r, user, flow) ==
  /\ FreeRun(r)
  /\ Len(heap) < MaxObjs
  /\ LET obj   == Len(heap) + 1
         sched == {j \in 1..Len(flow.nodes) : flow.nodes[j].type = "schedule"}
         keys  == {SchedKey(flow.nodes[i].id) : i \in sched}
         node(x) == flow.nodes[CHOOSE i \in sched : SchedKey(flow.nodes[i].id) = x]
         sw    == [k \in (DOMAIN stored_workflows) \cup keys |->
                     IF k \in keys THEN obj ELSE stored_workflows[k]]
         lf    == [k \in (DOMAIN latest.flow) \cup keys |->
                     IF k \in keys THEN obj ELSE latest.flow[k]]
     IN /\ heap' = Append(heap, flow)
        /\ stored_workflows' = RegisterWebhookWorkflows(sw, obj, flow)
        /\ jobs' = [k \in (DOMAIN jobs) \cup {<<"main", x>> : x \in keys} |->
                      IF k[1] = "main" /\ k[2] \in keys
                      THEN AddJob(jobs, k, NodeCron(node(k[2])), now)[k] ELSE jobs[k]]
        /\ latest' = [registered |-> latest.registered,
                      flow |-> RegisterWebhookWorkflows(lf, obj, flow),
                      cron |-> [k \in (DOMAIN latest.cron) \cup {<<"main", x>> : x \in keys} |->
                                  IF k[1] = "main" /\ k[2] \in keys
                                  THEN NodeCron(node(k[2])) ELSE latest.cron[k]]]
        /\ fired' = Forget({<<"main", x>> : x \in keys})
        /\ runs' \in {[runs EXCEPT ![r] = x] :
                       x \in Proceed(RunWorkflowEntry(obj, flow, RunOrigin(user)), flow)}
  /\ Silent
  /\ UNCHANGED <<now, instances, db, textVars, brokerVars>>

\* POST /run after the engine returned: the execution record is written
\* and the user is read (the two awaits are taken as one step: nothing of
\* this handler lies between them).  With no user to count for, and in the
\* in-memory mode, whose operations never suspend, the handler goes on to
\* its return; else it is suspended before the update of the counter.
PostRunReturns(r) ==
  /\ runs[r].origin.kind = "run"
  /\ runs[r].pc = "done"
  /\ LET uid == runs[r].origin.user
         rec == RecordStep(db, uid, heap[runs[r].obj], runs[r].ret)
     IN IF ~rec.found \/ rec.response.key = "error"
        THEN /\ db' = rec.db
             /\ reply' = Respond(rec.response)
             /\ runs' = [runs EXCEPT ![r] = IdleRun]
        ELSE IF db.in_memory_mode
        THEN /\ db' = UpdateUserStats(rec.db, uid, ExecutionCount(rec.user) + 1)
             /\ reply' = Respond(rec.response)
             /\ runs' = [runs EXCEPT ![r] = IdleRun]
        ELSE /\ db' = rec.db
             /\ runs' = [runs EXCEPT ![r].pc = "stats",
                                     ![r].count = ExecutionCount(rec.user)]
             /\ Silent
  /\ UNCHANGED <<heap, stored_workflows, latest, textVars, schedVars, brokerVars>>

\* POST /run resumes with the user it read: update_user_stats with the
\* count it read plus one, then the handler returns the result.
UpdateStats(r) ==
  /\ runs[r].origin.kind = "run"
  /\ runs[r].pc = "stats"
  /\ db' = UpdateUserStats(db, runs[r].origin.user, runs[r].count + 1)
  /\ reply' = Respond(Response("run", None, "message", runs[r].ret))
  /\ runs' = [runs EXCEPT ![r] = IdleRun]
  /\ UNCHANGED <<heap, stored_workflows, latest, textVars, schedVars, brokerVars>>

\* POST /schedule?workflow_id=id&cron=cron for a stored id.
AddSchedule(id, cron) ==
  /\ id \in DOMAIN stored_workflows
  /\ jobs' = AddJob(jobs, <<"main", id>>, cron, now)
  /\ latest' = [latest EXCEPT !.cron = Put(@, <<"main", id>>, cron)]
  /\ reply' = Respond(Response("schedule", id, "message", "scheduled"))
  /\ fired' = Forget({<<"main", id>>})
  /\ UNCHANGED <<now, instances, db, engineVars, textVars, brokerVars>>

\* Mutant: a schedule request for an unknown id adds the job all the same.
AddScheduleNotFoundAddsJob(id) ==
  /\ id \notin DOMAIN stored_workflows
  /\ jobs' = AddJob(jobs, <<"main", id>>, "*/2 * * * *", now)
  /\ reply' = Respond(Response("schedule", id, "error", "Workflow not found"))
  /\ UNCHANGED <<now, instances, fired, latest, db, engineVars, textVars, brokerVars>>

\* POST /schedule for an id that is not stored.
AddScheduleNotFound(id) ==
  /\ id \notin DOMAIN stored_workflows
  /\ reply' = Respond(Response("schedule", id, "error", "Workflow not found"))
  /\ UNCHANGED <<latest, db, engineVars, textVars, schedVars, brokerVars>>

\* Mutant: the stop also cancels the runs of the job that are in flight.
StopScheduleCancelsRuns(id) ==
  /\ <<"main", id>> \in DOMAIN jobs
  /\ jobs' = Remove(jobs, <<"main", id>>)
  /\ latest' = [latest EXCEPT !.cron = Remove(@, <<"main", id>>)]
  /\ reply' = Respond(Response("stop", id, "message", "stopped"))
  /\ fired' = Forget({<<"main", id>>})
  /\ runs' = [r \in DOMAIN runs |->
                IF runs[r].origin.kind = "fire" /\ runs[r].origin.job = <<"main", id>>
                THEN IdleRun ELSE runs[r]]
  /\ instances' = Remove(instances, <<"main", id>>)
  /\ UNCHANGED <<now, db, heap, stored_workflows, textVars, brokerVars>>

\* POST /schedule/stop/{workflow_id} for a job that exists.
StopSchedule(id) ==
  /\ <<"main", id>> \in DOMAIN jobs
  /\ jobs' = Remove(jobs, <<"main", id>>)
  /\ latest' = [latest EXCEPT !.cron = Remove(@, <<"main", id>>)]
  /\ reply' = Respond(Response("stop", id, "message", "stopped"))
  /\ fired' = Forget({<<"main", id>>})
  /\ UNCHANGED <<now, instances, db, engineVars, textVars, brokerVars>>

\* schedule_workflow(id, "cron", {expression: cron}, run_scheduled_workflow).
ScheduleWorkflow(id, cron) ==
  /\ jobs' = AddJob(Remove(jobs, <<"services", id>>), <<"services", id>>, cron, now)
  /\ latest' = [latest EXCEPT !.cron = Put(@, <<"services", id>>, cron)]
  /\ fired' = Forget({<<"services", id>>})
  /\ Silent
  /\ UNCHANGED <<now, instances, db, engineVars, textVars, brokerVars>>

\* Job k is due: the scheduler processes it.  A submitted job runs
\* run_scheduled_workflow(id) in a pool thread, here up to the first
\* suspension of its engine run, which is to last d ticks.
Fire(r, k, d) ==
  /\ k \in DOMAIN jobs
  /\ jobs[k].next = now
  /\ LET p == ProcessJob(jobs[k], Count(k), now)
     IN /\ jobs' = [jobs EXCEPT ![k].next = p.next]
        /\ IF ~p.start
           THEN /\ fired' = Fired(k, now, "drop", now)
                /\ UNCHANGED <<instances, latest, engineVars>>
           ELSE IF k[2] \notin DOMAIN stored_workflows
           THEN /\ fired' = Fired(k, now, "noop", now)
                /\ UNCHANGED <<instances, latest, engineVars>>
           ELSE LET obj == stored_workflows[k[2]]
                IN /\ FreeRun(r)
                   /\ instances' = Put(instances, k, Count(k) + 1)
                   /\ \E x \in Proceed(RunWorkflowEntry(obj, heap[obj],
                                                        FireOrigin(k, now, d)),
                                        heap[obj]) :
                        /\ runs' = [runs EXCEPT ![r] = x]
                        /\ fired' = Fired(k, now, "start",
                                          IF x.pc = "done" THEN now ELSE now + d)
                   /\ stored_workflows' =
                        RegisterWebhookWorkflows(stored_workflows, obj, heap[obj])
                   /\ latest' = [latest EXCEPT !.flow =
                                   RegisterWebhookWorkflows(@, obj, heap[obj])]
                   /\ UNCHANGED heap
  /\ Silent
  /\ UNCHANGED <<now, db, textVars, brokerVars>>

\* run_scheduled_workflow returns in its pool thread: the executor counts
\* the instance off.
JobReturns(r) ==
  /\ runs[r].origin.kind = "fire"
  /\ runs[r].pc = "done"
  /\ instances' = IF instances[runs[r].origin.job] = 1
                  THEN Remove(instances, runs[r].origin.job)
                  ELSE [instances EXCEPT ![runs[r].origin.job] = @ - 1]
  /\ runs' = [runs EXCEPT ![r] = IdleRun]
  /\ Silent
  /\ UNCHANGED <<heap, stored_workflows, now, jobs, fired, latest, db, textVars, brokerVars>>

\* Time passes once every due job is processed and every scheduled run
\* that ends now has returned.
Tick ==
  /\ now < MaxTime
  /\ \A k \in DOMAIN jobs : jobs[k].next > now
  /\ \A r \in FireRuns : runs[r].pc = "await" /\ runs[r].origin.ends > now
  /\ now' = now + 1
  /\ Silent
  /\ UNCHANGED <<jobs, instances, fired, latest, db, engineVars, textVars, brokerVars>>

\* The state after the import of main.py; the history observes one job.
InitSched ==
  /\ heap = <<>>
  /\ stored_workflows = EmptyDict
  /\ runs = [r \in 1..SchedRuns |-> IdleRun]
  /\ TextIdle
  /\ now = 0
  /\ jobs = EmptyDict
  /\ instances = EmptyDict
  /\ \E k \in Schedulers \X SchedIds : fired = [x \in {k} |-> <<>>]
  /\ RecordIdle
  /\ BrokerIdle

NextSched ==
  \/ \E r \in 1..SchedRuns, user \in Users, flow \in SchedFlows : PostRun(r, user, flow)
  \/ \E r \in 1..SchedRuns : PostRunReturns(r)
  \/ \E id \in SchedIds, cron \in Crons : AddSchedule(id, cron)
  \/ \E id \in SchedIds : StopSchedule(id)
  \/ \E id \in SchedIds, cron \in Crons : ScheduleWorkflow(id, cron)
  \/ \E r \in 1..SchedRuns, k \in Schedulers \X SchedIds, d \in 1..MaxDur : Fire(r, k, d)
  \/ \E r \in 1..SchedRuns : ExecutorReturns(r)
  \/ \E r \in 1..SchedRuns : JobReturns(r)
  \/ Tick

SpecSched == InitSched /\ [][NextSched]_vars


\* The runs in flight that a fire of job k started.
RunsOf(k) == {r \in FireRuns : runs[r].origin.job = k}

(***************************************************************************)
(* C9: for every scheduled workflow id, at most one run started by a fire  *)
(* is in flight at any time, whichever of POST /schedule, the pre-pass of  *)
(* /run and schedule_workflow added the jobs.  Fails when the id has a job *)
(* in the scheduler of main.py and one in the scheduler of                 *)
(* services/scheduler.py: each executor counts its own instances.          *)
(***************************************************************************)
C9_OneRunInFlightPerWorkflowId ==
  \A id \in SchedIds :
    Cardinality({r \in FireRuns : runs[r].origin.job[2] = id}) <= 1

\* Within one scheduler the exclusion holds: a job (a scheduler and an id)
\* has at most one run in flight, and the executor's instance count of the
\* job is the number of its runs in flight.
OneRunInFlightPerJob ==
  \A k \in Schedulers \X SchedIds :
    /\ Cardinality(RunsOf(k)) <= 1
    /\ Count(k) = Cardinality(RunsOf(k))

\* The scenario of C10 in ticks: fires 60 s apart, runs of 90 s, 150 s.
ScenarioPeriod == Period("*/1 * * * *")
ScenarioRun    == ScenarioPeriod + ScenarioPeriod \div 2
ScenarioSpan   == 2 * ScenarioPeriod + ScenarioPeriod \div 2

Starts(h, from, to) ==
  {j \in 1..Len(h) : h[j].what = "start" /\ from <= h[j].t /\ h[j].t <= to}

(***************************************************************************)
(* C10: a fire that occurs while a prior run of the same job is in flight  *)
(* is dropped and never queued: the fires of a job are exactly one period  *)
(* apart at the times of its cron expression (none is added to make up for *)
(* a dropped one), and the runs they start do not overlap.  With fires     *)
(* 60 s apart and a run of 90 s started at t, the fire at t + 60 s starts  *)
(* none and the fire at t + 120 s starts one: two runs start within 150 s. *)
(***************************************************************************)
C10_DroppedFireNeverQueued ==
  \A k \in DOMAIN fired :
    LET h == fired[k]
    IN /\ h # <<>> => k \in DOMAIN jobs
       /\ \A i \in 1..Len(h) :
            /\ (h[i].t - Phase) % Period(jobs[k].cron) = 0
            /\ i > 1 => h[i].t = h[i - 1].t + Period(jobs[k].cron)
            /\ h[i].what = "start" =>
                 \A j \in (i + 1)..Len(h) : h[j].what = "start" => h[i].ends <= h[j].t
            /\ (h[i].what = "drop" /\ i > 1 /\ h[i - 1].what = "start") =>
                 h[i - 1].ends >= h[i].t
       /\ \A i \in 1..Len(h) :
            ( /\ h[i].what = "start"
              /\ h[i].ends = h[i].t + ScenarioRun
              /\ Period(jobs[k].cron) = ScenarioPeriod ) =>
              /\ i + 1 <= Len(h) => h[i + 1].what = "drop"
              /\ i + 2 <= Len(h) =>
                   /\ h[i + 2].what = "start"
                   /\ h[i + 2].t = h[i].t + 2 * ScenarioPeriod
                   /\ Cardinality(Starts(h, h[i].t, h[i].t + ScenarioSpan)) = 2

\* 150 s after the first fire of a job with fires 60 s apart: its run of
\* 90 s, the dropped fire and the fire that started the second run.
C10_Witness ==
  \E k \in DOMAIN fired :
    /\ Len(fired[k]) = 3
    /\ Period(jobs[k].cron) = ScenarioPeriod
    /\ fired[k][1].what = "start" /\ fired[k][1].ends = fired[k][1].t + ScenarioRun
    /\ fired[k][2].what = "drop"
    /\ fired[k][3].what = "start"
    /\ now = fired[k][1].t + ScenarioSpan


(***************************************************************************)
(* The workflow store: stored_workflows under the register, trigger, list  *)
(* and run handlers.  No time passes, the responses are observed, the      *)
(* MongoDB server is out of reach.                                         *)
(***************************************************************************)
\* The ids of the register requests: one that is no node id and one that is.
RegIds == {"X", "a"}

\* The ids of the trigger requests.
RegKeys == RegIds \cup {"b", SchedKey("a")}

\* The request bodies: a webhook node before an AI node, two webhook nodes,
\* and a schedule node and a webhook node on a cycle.
StoreFlows ==
  {MkWorkflow(<<[id |-> "a", type |-> "webhook"], [id |-> "b", type |-> "gpt"]>>,
              <<[source |-> "a", target |-> "b"]>>),
   MkWorkflow(<<[id |-> "a", type |-> "webhook"], [id |-> "b", type |-> "webhook"]>>,
              <<[source |-> "a", target |-> "b"]>>),
   MkWorkflow(<<[id |-> "a", type |-> "schedule"], [id |-> "b", type |-> "webhook"]>>,
              <<[source |-> "a", target |-> "b"], [source |-> "b", target |-> "a"]>>)}

\* list(d.keys()): every key of the dictionary, once.
RECURSIVE KeyList(_)
KeyList(d) ==
  IF DOMAIN d = {} THEN <<>>
  ELSE LET k == CHOOSE x \in DOMAIN d : TRUE
       IN <<k>> \o KeyList(Remove(d, k))

\* GET /webhook/list
ListRegistered ==
  /\ reply' = Respond(Response("list", None, "workflows",
                                [workflows |-> KeyList(stored_workflows),
                                 count     |-> Cardinality(DOMAIN stored_workflows)]))
  /\ UNCHANGED <<latest, db, engineVars, textVars, schedVars, brokerVars>>

InitStore ==
  /\ heap = <<>>
  /\ stored_workflows = EmptyDict
  /\ runs = [r \in 1..MaxRuns |-> IdleRun]
  /\ TextIdle
  /\ SchedIdle
  /\ latest = NoLatest
  /\ reply = NoReply
  /\ db = Database(FALSE, "down")
  /\ BrokerIdle

NextStore ==
  \/ \E id \in RegIds, flow \in StoreFlows : RegisterWebhook(id, flow)
  \/ \E r \in 1..MaxRuns, id \in RegKeys : TriggerWebhook(r, id, "P1", "S1")
  \/ ListRegistered
  \/ \E r \in 1..MaxRuns, user \in Users, flow \in StoreFlows : PostRun(r, user, flow)
  \/ \E r \in 1..MaxRuns : PostRunReturns(r)
  \/ \E r \in 1..MaxRuns : ExecutorReturns(r)

SpecStore == InitStore /\ [][NextStore]_vars

\* No element of the sequence occurs twice.
NoDuplicates(s) == \A i, j \in 1..Len(s) : s[i] = s[j] => i = j

\* The number of register requests so far.
RegisterCalls ==
  LET RECURSIVE Sum(_)
      Sum(S) == IF S = {} THEN 0
                ELSE LET k == CHOOSE x \in S : TRUE
                     IN latest.registered[k] + Sum(S \ {k})
  IN Sum(DOMAIN latest.registered)

\* Every request so far was a register request: every object came with
\* one, and no trigger has started a run (the slot of a trigger is not
\* taken again).
OnlyRegisterCalls ==
  /\ RegisterCalls = Len(heap)
  /\ \A r \in DOMAIN runs : runs[r].pc = "idle"

\* The step starts the run of a trigger in slot r.
TriggerStarts(r) == runs[r].pc = "idle" /\ runs'[r].origin.kind = "trigger"

(***************************************************************************)
(* C11: registering a workflow under an id that is registered replaces     *)
(* the stored workflow: every id holds the workflow of its most recent     *)
(* registration, and a trigger of the id runs that one.  The list          *)
(* operation returns every registered id exactly once, and its count is    *)
(* the number of distinct ids; after register requests alone these are     *)
(* exactly the ids of the requests.                                        *)
(***************************************************************************)
C11_RegisterReplacesListDistinct ==
  /\ [](/\ \A id \in DOMAIN latest.flow :
             id \in DOMAIN stored_workflows /\ stored_workflows[id] = latest.flow[id]
        /\ reply.key = "workflows" =>
             /\ NoDuplicates(reply.body.workflows)
             /\ DOMAIN latest.registered \subseteq SeqSet(reply.body.workflows)
             /\ SeqSet(reply.body.workflows) = DOMAIN latest.flow
             /\ reply.body.count = Cardinality(DOMAIN latest.flow)
             /\ OnlyRegisterCalls =>
                  /\ SeqSet(reply.body.workflows) = DOMAIN latest.registered
                  /\ reply.body.count = Cardinality(DOMAIN latest.registered))
  /\ [][\A r \in DOMAIN runs :
          TriggerStarts(r) =>
            /\ runs'[r].origin.id \in DOMAIN latest.flow
            /\ runs'[r].obj = latest.flow[runs'[r].origin.id]]_vars

\* X was registered twice, the list counted one id, and a trigger of X
\* runs the second workflow.
C11_Witness ==
  /\ GetOr(latest.registered, "X", 0) = 2
  /\ \E r \in DOMAIN runs :
       /\ runs[r].origin.kind = "trigger"
       /\ runs[r].origin.id = "X"
       /\ runs[r].obj = 2


\* The step starts the run of a POST /run request in slot r.
PostRunStarts(r) == runs[r].pc = "idle" /\ runs'[r].origin.kind = "run"

(***************************************************************************)
(* C14: a POST /run of a workflow stores the workflow under the id of      *)
(* each of its webhook nodes, and a trigger of an id runs what is stored   *)
(* under it: after the POST /run a trigger of such an id finds and runs    *)
(* the workflow without any register request.                              *)
(***************************************************************************)
C14_RunRegistersWebhookNodes ==
  [][\A r \in DOMAIN runs :
       /\ PostRunStarts(r) =>
            \A n \in NodesOfType(heap'[runs'[r].obj], "webhook") :
              n \in DOMAIN stored_workflows' /\ stored_workflows'[n] = runs'[r].obj
       /\ TriggerStarts(r) =>
            /\ runs'[r].origin.id \in DOMAIN stored_workflows
            /\ runs'[r].obj = stored_workflows[runs'[r].origin.id]]_vars

\* No register request was made, a workflow with the webhook nodes a and b
\* was posted to /run, and a trigger of b runs it.
C14_Witness ==
  /\ latest.registered = EmptyDict
  /\ \E r \in DOMAIN runs :
       /\ runs[r].origin.kind = "trigger"
       /\ runs[r].origin.id = "b"
       /\ NodesOfType(heap[runs[r].obj], "webhook") = {"a", "b"}

\* The step answers the POST /run request of slot r with the cycle error.
CycleAnswered(r) ==
  /\ runs[r].origin.kind = "run"
  /\ runs[r].pc = "done"
  /\ runs'[r].pc = "idle"
  /\ "error" \in DOMAIN runs[r].ret
  /\ runs[r].ret = CycleError

(***************************************************************************)
(* C15: when a POST /run is rejected for a cycle, the registrations of     *)
(* the request are kept: as the error is returned, stored_workflows has    *)
(* the ids of its webhook nodes and the keys scheduled_<id> of its         *)
(* schedule nodes, and the job store has the jobs of its schedule nodes;   *)
(* they refer to the workflow of the request unless a later registration   *)
(* took the key.                                                           *)
(***************************************************************************)
C15_CycleKeepsRegistrations ==
  [][\A r \in DOMAIN runs :
       CycleAnswered(r) =>
         LET obj == runs[r].obj
         IN /\ \A n \in NodesOfType(heap[obj], "webhook") :
                 /\ n \in DOMAIN stored_workflows'
                 /\ latest.flow[n] = obj => stored_workflows'[n] = obj
            /\ \A n \in NodesOfType(heap[obj], "schedule") :
                 /\ SchedKey(n) \in DOMAIN stored_workflows'
                 /\ latest.flow[SchedKey(n)] = obj => stored_workflows'[SchedKey(n)] = obj
                 /\ <<"main", SchedKey(n)>> \in DOMAIN jobs']_vars

\* The cycle error was returned for a workflow with a schedule node a and a
\* webhook node b, and the entries b and scheduled_a and the job are there.
C15_Witness ==
  /\ reply.about.op = "run"
  /\ reply.key = "message"
  /\ "error" \in DOMAIN reply.body
  /\ reply.body = CycleError
  /\ "b" \in DOMAIN stored_workflows
  /\ SchedKey("a") \in DOMAIN stored_workflows
  /\ <<"main", SchedKey("a")>> \in DOMAIN jobs
  /\ NodesOfType(heap[stored_workflows["b"]], "schedule") = {"a"}

(***************************************************************************)
(* The job store of main.py's scheduler under the run, schedule and stop   *)
(* handlers.  The workflows are made of schedule nodes, whose executor     *)
(* does not suspend.  No time passes, the responses are observed, the      *)
(* MongoDB server is out of reach.                                         *)
(***************************************************************************)
\* The ids of the schedule and stop requests.
JobIds == {"X", SchedKey("a"), SchedKey("b")}

\* The request bodies: a schedule node with a cron expression, and a
\* schedule node without one before a schedule node with one.
JobFlows ==
  {MkWorkflow(<<[id |-> "a", type |-> "schedule", cron |-> "*/2 * * * *"]>>, <<>>),
   MkWorkflow(<<[id |-> "a", type |-> "schedule"],
                [id |-> "b", type |-> "schedule", cron |-> "*/2 * * * *"]>>,
              <<[source |-> "a", target |-> "b"]>>)}

\* Mutant: a stop request for an id without a job drops the stored workflow.
StopScheduleNotFoundDropsWorkflow(id) ==
  /\ <<"main", id>> \notin DOMAIN jobs
  /\ stored_workflows' = Remove(stored_workflows, id)
  /\ reply' = Respond(Response("stop", id, "error", "No scheduled job found"))
  /\ UNCHANGED <<heap, runs, latest, db, textVars, schedVars, brokerVars>>

\* POST /schedule/stop/{workflow_id} for an id that has no job.
StopScheduleNotFound(id) ==
  /\ <<"main", id>> \notin DOMAIN jobs
  /\ reply' = Respond(Response("stop", id, "error", "No scheduled job found"))
  /\ UNCHANGED <<latest, db, engineVars, textVars, schedVars, brokerVars>>

InitJobs ==
  /\ heap = <<>>
  /\ stored_workflows = EmptyDict
  /\ runs = [r \in 1..MaxRuns |-> IdleRun]
  /\ TextIdle
  /\ SchedIdle
  /\ latest = NoLatest
  /\ reply = NoReply
  /\ db = Database(FALSE, "down")
  /\ BrokerIdle

NextJobs ==
  \/ \E flow \in JobFlows : RegisterWebhook("X", flow)
  \/ \E r \in 1..MaxRuns, user \in Users, flow \in JobFlows : PostRun(r, user, flow)
  \/ \E r \in 1..MaxRuns : PostRunReturns(r)
  \/ \E id \in JobIds, cron \in Crons : AddSchedule(id, cron)
  \/ \E id \in JobIds : AddScheduleNotFound(id)
  \/ \E id \in JobIds : StopSchedule(id)
  \/ \E id \in JobIds : StopScheduleNotFound(id)

SpecJobs == InitJobs /\ [][NextJobs]_vars


\* The step taken answered a stop request for id.
StopAnswered(id) == reply'.about = [op |-> "stop", id |-> id]

NotFoundAnswer(id) == Response("stop", id, "error", "No scheduled job found")

(***************************************************************************)
(* C12: a stop request for an id that has no job is answered with the      *)
(* not-found error and leaves the job store, the running instances and     *)
(* stored_workflows as they are.  After any stop request for an id the id  *)
(* has no job, so a second stop request for it is such a request: it is    *)
(* answered with the not-found error and leaves the state the first one    *)
(* left.                                                                   *)
(***************************************************************************)
C12_StopMissingIsNoOp ==
  [][\A id \in JobIds :
       StopAnswered(id) =>
         /\ <<"main", id>> \notin DOMAIN jobs'
         /\ <<"main", id>> \notin DOMAIN jobs =>
              /\ reply' = NotFoundAnswer(id)
              /\ UNCHANGED <<jobs, instances, stored_workflows, heap, runs>>]_vars

\* The pre-pass stored scheduled_a and added its job, the job was stopped,
\* and a further stop request for it was answered with the error.
C12_Witness ==
  /\ SchedKey("a") \in DOMAIN stored_workflows
  /\ <<"main", SchedKey("a")>> \notin DOMAIN jobs
  /\ reply = NotFoundAnswer(SchedKey("a"))

(***************************************************************************)
(* C13: after any sequence of schedule registrations by POST /schedule and *)
(* by the pre-pass of POST /run, the job store holds at most one job per   *)
(* workflow id, and the job has the cron expression of the most recent     *)
(* registration for the id.                                                *)
(***************************************************************************)
C13_OneJobPerIdLatestCron ==
  /\ \A id \in JobIds : Cardinality({k \in DOMAIN jobs : k[2] = id}) <= 1
  /\ \A k \in DOMAIN jobs : k \in DOMAIN latest.cron /\ jobs[k].cron = latest.cron[k]
  /\ \A k \in DOMAIN latest.cron : k \in DOMAIN jobs

\* Two POST /run requests registered scheduled_a with different cron
\* expressions, and the job has the one of the second.
C13_Witness ==
  /\ Len(heap) = 2
  /\ "X" \notin DOMAIN stored_workflows
  /\ NodeCron(heap[1].nodes[1]) # NodeCron(heap[2].nodes[1])
  /\ <<"main", SchedKey("a")>> \in DOMAIN jobs
  /\ jobs[<<"main", SchedKey("a")>>].cron = NodeCron(heap[2].nodes[1])


(***************************************************************************)
(* The recording of runs.  SpecHistory: POST /run, the webhook trigger and *)
(* the scheduler fire over a database that works, in either mode.          *)
(* SpecRecord: POST /run over a database of either mode and a MongoDB      *)
(* server that may stop taking writes or go out of reach and come back.    *)
(***************************************************************************)
\* The request bodies of POST /run: a schedule node before a webhook node,
\* which gives a job and a stored workflow, and one AI node.
RecordFlows ==
  {MkWorkflow(<<[id |-> "a", type |-> "schedule"], [id |-> "b", type |-> "webhook"]>>,
              <<[source |-> "a", target |-> "b"]>>),
   MkWorkflow(<<[id |-> "a", type |-> "gpt"]>>, <<>>)}

RecordJobs == {<<"main", SchedKey("a")>>}

ServerStates == {"ok", "readonly", "down"}

\* The MongoDB server changes its state; the in-memory database has none.
ServerChanges(state) ==
  /\ ~db.in_memory_mode
  /\ db.state # state
  /\ db' = [db EXCEPT !.state = state]
  /\ Silent
  /\ UNCHANGED <<latest, engineVars, textVars, schedVars, brokerVars>>

\* The state after startup: connect_to_mongo succeeded, or it fell back to
\* the in-memory database with the test user.
InitRecord ==
  /\ heap = <<>>
  /\ stored_workflows = EmptyDict
  /\ runs = [r \in 1..MaxRuns |-> IdleRun]
  /\ TextIdle
  /\ SchedIdle
  /\ latest = NoLatest
  /\ reply = NoReply
  /\ \E in_memory_mode \in BOOLEAN : db = Database(in_memory_mode, "ok")
  /\ BrokerIdle

NextRecord ==
  \/ \E r \in 1..MaxRuns, user \in Users, flow \in RecordFlows : PostRun(r, user, flow)
  \/ \E r \in 1..MaxRuns : PostRunReturns(r)
  \/ \E r \in 1..MaxRuns : UpdateStats(r)
  \/ \E r \in 1..MaxRuns : ExecutorReturns(r)
  \/ \E state \in ServerStates : ServerChanges(state)

SpecRecord == InitRecord /\ [][NextRecord]_vars

\* The state after startup; the responses are not observed.
InitHistory ==
  /\ heap = <<>>
  /\ stored_workflows = EmptyDict
  /\ runs = [r \in 1..MaxRuns |-> IdleRun]
  /\ TextIdle
  /\ SchedIdle
  /\ latest = NoLatest
  /\ reply = Unobserved
  /\ \E in_memory_mode \in BOOLEAN : db = Database(in_memory_mode, "ok")
  /\ BrokerIdle

NextHistory ==
  \/ \E r \in 1..MaxRuns, user \in Users, flow \in RecordFlows : PostRun(r, user, flow)
  \/ \E r \in 1..MaxRuns : PostRunReturns(r)
  \/ \E r \in 1..MaxRuns : UpdateStats(r)
  \/ \E r \in 1..MaxRuns : TriggerWebhook(r, "b", "P1", "S1")
  \/ \E r \in 1..MaxRuns : TriggerReturns(r)
  \/ \E r \in 1..MaxRuns, k \in RecordJobs : Fire(r, k, 1)
  \/ \E r \in 1..MaxRuns : JobReturns(r)
  \/ Tick
  \/ \E r \in 1..MaxRuns : ExecutorReturns(r)

SpecHistory == InitHistory /\ [][NextHistory]_vars

\* The step is the first of the caller of the engine run of slot r after
\* the run returned.
RunCompletes(r) == runs[r].pc = "done" /\ runs'[r].pc # "done"

\* The execution record of the run of slot r is appended by the step.
RecordAppended(r) ==
  /\ Len(db'.workflow_executions) = Len(db.workflow_executions) + 1
  /\ SubSeq(db'.workflow_executions, 1, Len(db.workflow_executions)) = db.workflow_executions
  /\ LET e == db'.workflow_executions[Len(db'.workflow_executions)]
     IN /\ e.nodes = NodesDict(heap[runs[r].obj])
        /\ e.edges = heap[runs[r].obj].edges
        /\ e.result = runs[r].ret

\* The runs started by POST /run are recorded while the database takes writes.
RunRequestsRecorded ==
  [][\A r \in DOMAIN runs :
       (RunCompletes(r) /\ runs[r].origin.kind = "run" /\ ~WriteRaises(db))
         => RecordAppended(r)]_vars

(***************************************************************************)
(* C16: when an engine run completes, however it was started (POST /run,   *)
(* webhook trigger, scheduler fire), one execution record with the node    *)
(* and edge snapshot and the result map is appended to the history; the    *)
(* database takes writes.                                                  *)
(***************************************************************************)
C16_EveryRunRecorded ==
  [][\A r \in DOMAIN runs :
       (RunCompletes(r) /\ ~WriteRaises(db)) => RecordAppended(r)]_vars

\* The step answers the POST /run request of slot r.
RunAnswered(r) ==
  /\ runs[r].origin.kind = "run"
  /\ runs[r].pc \in {"done", "stats"}
  /\ runs'[r].pc = "idle"

(***************************************************************************)
(* C17: recording is best-effort.  Whatever the history write and the      *)
(* counter update do, POST /run answers {"message": result} with the       *)
(* result map of the engine; and when the history write fails while the    *)
(* user can be read, the handler goes on to the counter update, which      *)
(* takes effect if the server takes writes by then.                        *)
(***************************************************************************)
C17_RecordingIsBestEffort ==
  [][\A r \in DOMAIN runs :
       /\ RunAnswered(r) =>
            reply' = Response("run", None, "message", runs[r].ret)
       /\ (RunCompletes(r) /\ runs[r].origin.kind = "run"
             /\ WriteRaises(db) /\ ~ReadRaises(db)) =>
            /\ db'.workflow_executions = db.workflow_executions
            /\ runs'[r].pc = "stats"
            /\ runs'[r].count = ExecutionCount(db.users[runs[r].origin.user])
       /\ (RunAnswered(r) /\ runs[r].pc = "stats" /\ ~WriteRaises(db)) =>
            ExecutionCount(db'.users[runs[r].origin.user]) = runs[r].count + 1]_vars

\* A POST /run was answered with a result map; its history write failed
\* and its counter update took effect.
C17_Witness ==
  /\ reply.about.op = "run"
  /\ reply.key = "message"
  /\ "a" \in DOMAIN reply.body
  /\ db.workflow_executions = <<>>
  /\ \E u \in Users : ExecutionCount(db.users[u]) = InitialCount(db.in_memory_mode) + 1

\* The counter of the user as get_user reads it back.
ReadBack(d, user_id) == ExecutionCount(GetUserById(d, user_id))

\* The step that answers the request of slot r is one of a handler whose
\* database operations all worked and that no other request overlapped:
\* the counter is as the handler read it.
Undisturbed(r) ==
  /\ RunAnswered(r)
  /\ db.state = "ok"
  /\ runs[r].pc = "stats" => runs[r].count = ReadBack(db, runs[r].origin.user)

\* In the MongoDB mode every such POST /run adds one to the counter.
CounterIncrementsMongo ==
  [][\A r \in DOMAIN runs :
       (Undisturbed(r) /\ ~db.in_memory_mode) =>
          ReadBack(db', runs[r].origin.user) = ReadBack(db, runs[r].origin.user) + 1]_vars

(***************************************************************************)
(* C18: when persistence works, every completed POST /run adds exactly one *)
(* to profile.execution_count of the user as get_user reads it back, in    *)
(* the MongoDB mode and in the in-memory mode alike; so n runs in sequence *)
(* leave initial + n.                                                      *)
(***************************************************************************)
C18_CounterIncrementsByOne ==
  [][\A r \in DOMAIN runs :
       Undisturbed(r) =>
          ReadBack(db', runs[r].origin.user) = ReadBack(db, runs[r].origin.user) + 1]_vars


(***************************************************************************)
(* The credential broker: the APIKeyManager instances of the runs over     *)
(* the api_keys of the user documents and the process environment.         *)
(*   broker  - the managers created so far, each with                      *)
(*               user_id     - the user the manager was created for        *)
(*               cached_keys - _cached_keys                                *)
(*               resolved    - history: service -> the first value an      *)
(*                             access of this manager returned for it      *)
(*   environ - os.environ: variable -> value                               *)
(***************************************************************************)
MaxManagers == 2

\* The services asked for: two of the mapping and one that is not in it.
Services == {"openai", "discord", "foo"}

\* service_keys of update_user_api_keys, restricted to Services.
ServiceKeys == {"openai", "discord"}

\* The user ids managers are created for: "2" has no user document.
ManagerUsers == Users \cup {"2"}

\* env_mapping of _get_env_fallback: the entries the model uses.
EnvMapping ==
  [openai |-> "OPENAI_API_KEY", openrouter |-> "OPENROUTER_API_KEY",
   discord |-> "SOCIAL_MEDIA_TEST_WEBHOOK"]

\* The keys users save and the values of the environment at startup.
UserKeys == {"K1", "K2"}
EnvKeys  == {"E1"}

\* The Fernet token of a key, and a token that does not decrypt.
Token == [K1 |-> "gAAAAA1", K2 |-> "gAAAAA2"]
Undecryptable == [encrypted |-> "gAAAAA0", version |-> "1"]

\* encrypt_api_key of a non-empty key.
EncryptApiKey(api_key) == [encrypted |-> Token[api_key], version |-> "1"]

\* decrypt_api_key: the key of the token, None if the token does not decrypt.
DecryptApiKey(encrypted_data) ==
  IF \E k \in DOMAIN Token : Token[k] = encrypted_data.encrypted
  THEN CHOOSE k \in DOMAIN Token : Token[k] = encrypted_data.encrypted
  ELSE None

\* _get_env_fallback: os.getenv of the mapped variable, None without one.
GetEnvFallback(env, service) ==
  IF service \in DOMAIN EnvMapping THEN Get(env, EnvMapping[service]) ELSE None

Manager(user_id) == [user_id |-> user_id, cached_keys |-> EmptyDict, resolved |-> EmptyDict]

\* get_api_key(service) of manager m: the value returned, the manager after
\* the call and whether the user document was read.
GetApiKey(m, d, env, service) ==
  IF service \in DOMAIN m.cached_keys
  THEN [value |-> m.cached_keys[service], manager |-> m, read |-> FALSE]
  ELSE IF ~UserFound(d, m.user_id)
  THEN [value |-> None, manager |-> m, read |-> TRUE]
  ELSE LET api_keys_data == d.users[m.user_id].api_keys
       IN IF service \notin DOMAIN api_keys_data
          THEN [value |-> GetEnvFallback(env, service), manager |-> m, read |-> TRUE]
          ELSE LET decrypted_key == DecryptApiKey(api_keys_data[service])
               IN IF decrypted_key # None
                  THEN [value   |-> decrypted_key,
                        manager |-> [m EXCEPT !.cached_keys = Put(@, service, decrypted_key)],
                        read    |-> TRUE]
                  ELSE [value |-> GetEnvFallback(env, service), manager |-> m, read |-> TRUE]

\* The manager after an access, with the history of first values.
Accessed(res, service) ==
  IF res.value = None \/ service \in DOMAIN res.manager.resolved THEN res.manager
  ELSE [res.manager EXCEPT !.resolved = Put(@, service, res.value)]

KeyResponse(b, service, res) ==
  Response("key", service, "value", [manager |-> b, value |-> res.value, read |-> res.read])

\* get_user_api_manager(user_id) at the start of a run with a user.
GetUserApiManager(user_id) ==
  /\ Len(broker) < MaxManagers
  /\ broker' = Append(broker, Manager(user_id))
  /\ Silent
  /\ UNCHANGED <<environ, latest, db, engineVars, textVars, schedVars>>

\* An accessor of manager b is awaited by a node executor: get_api_key(service).
Access(b, service) ==
  /\ b \in DOMAIN broker
  /\ LET res == GetApiKey(broker[b], db, environ, service)
     IN /\ broker' = [broker EXCEPT ![b] = Accessed(res, service)]
        /\ reply' = Respond(KeyResponse(b, service, res))
  /\ UNCHANGED <<environ, latest, db, engineVars, textVars, schedVars>>

\* The service whose key _setup_ai_api_keys asks for: openai for a gpt
\* node, openrouter for the other AI nodes (with the default model).
AiService(type) == IF type = "gpt" THEN "openai" ELSE "openrouter"

\* _setup_ai_api_keys of an AI node of the run of manager b: the accessor
\* of the service, and a key that is found is written to os.environ.
SetupAiApiKeys(b, type) ==
  /\ b \in DOMAIN broker
  /\ LET service == AiService(type)
         res     == GetApiKey(broker[b], db, environ, service)
     IN /\ broker' = [broker EXCEPT ![b] = Accessed(res, service)]
        /\ environ' = IF res.value # None /\ res.value # ""
                      THEN Put(environ, EnvMapping[service], res.value) ELSE environ
        /\ reply' = Respond(KeyResponse(b, service, res))
  /\ UNCHANGED <<latest, db, engineVars, textVars, schedVars>>

\* The bodies of PUT /api/user/api-keys: no key, or one new key.
KeyRequests ==
  {EmptyDict} \cup {[x \in {service} |-> key] : service \in ServiceKeys, key \in UserKeys}

\* PUT /api/user/api-keys of a user who is found, on a database that takes
\* the update: api_keys becomes the encrypted keys of the request.
UpdateUserApiKeys(user_id, request) ==
  /\ UserFound(db, user_id)
  /\ ~WriteRaises(db)
  /\ db' = [db EXCEPT !.users[user_id].api_keys =
              [service \in DOMAIN request |-> EncryptApiKey(request[service])]]
  /\ Silent
  /\ UNCHANGED <<latest, engineVars, textVars, schedVars, brokerVars>>

\* The api_keys of the user at startup.
StoredKeys ==
  {EmptyDict,
   [x \in {"openai"} |-> EncryptApiKey("K1")],
   [x \in {"openai"} |-> Undecryptable]}

\* The state after startup with MongoDB connected, before any run.
InitBroker ==
  /\ heap = <<>>
  /\ stored_workflows = EmptyDict
  /\ runs = [r \in {1} |-> IdleRun]
  /\ TextIdle
  /\ SchedIdle
  /\ latest = NoLatest
  /\ reply = NoReply
  /\ \E keys \in StoredKeys :
       db = [Database(FALSE, "ok") EXCEPT !.users["1"].api_keys = keys]
  /\ broker = <<>>
  /\ \E set \in SUBSET {EnvMapping[x] : x \in Services \cap DOMAIN EnvMapping}, value \in EnvKeys :
       environ = [x \in set |-> value]

NextBroker ==
  \/ \E user_id \in ManagerUsers : GetUserApiManager(user_id)
  \/ \E b \in 1..MaxManagers, service \in Services : Access(b, service)
  \/ \E b \in 1..MaxManagers : SetupAiApiKeys(b, "gpt")
  \/ \E user_id \in Users, request \in KeyRequests : UpdateUserApiKeys(user_id, request)
  \/ \E state \in {"ok", "down"} : ServerChanges(state)

SpecBroker == InitBroker /\ [][NextBroker]_vars

\* The step is an access of manager b to service.
Accesses(b, service) ==
  /\ reply'.about = [op |-> "key", id |-> service]
  /\ reply'.body.manager = b
  /\ b \in DOMAIN broker

\* The value the user's credential record supplies for service: the
\* decrypted entry, None where there is no user, no entry or no decryption.
RecordValue(user_id, service) ==
  IF ~UserFound(db, user_id) THEN None
  ELSE IF service \notin DOMAIN db.users[user_id].api_keys THEN None
  ELSE DecryptApiKey(db.users[user_id].api_keys[service])

\* The order of resolution: the record, then the environment, then empty.
Resolution(user_id, service) ==
  IF RecordValue(user_id, service) # None THEN RecordValue(user_id, service)
  ELSE IF service \in DOMAIN EnvMapping /\ EnvMapping[service] \in DOMAIN environ
  THEN environ[EnvMapping[service]]
  ELSE None

\* An access that finds the user document resolves in that order.
ResolutionOrderWhenUserFound ==
  [][\A b \in 1..MaxManagers, service \in Services :
       (/\ Accesses(b, service)
        /\ service \notin DOMAIN broker[b].cached_keys
        /\ UserFound(db, broker[b].user_id))
         => reply'.body.value = Resolution(broker[b].user_id, service)]_vars

(***************************************************************************)
(* C19: an accessor that resolves a service returns the decrypted value    *)
(* of the user's record if there is one; else the value of the mapped      *)
(* environment variable; else nothing.  The environment is used whenever   *)
(* the record supplies no value, also when there is no user record.        *)
(***************************************************************************)
C19_ResolutionOrder ==
  [][\A b \in 1..MaxManagers, service \in Services :
       (Accesses(b, service) /\ service \notin DOMAIN broker[b].cached_keys)
         => reply'.body.value = Resolution(broker[b].user_id, service)]_vars

(***************************************************************************)
(* C20: once an access of a manager has returned a value for a service,    *)
(* every later access of that manager to the service returns that value    *)
(* and does not read the user document again, whether the value came from  *)
(* the user's record or from the environment.                              *)
(***************************************************************************)
C20_ResolvedValueIsCached ==
  [][\A b \in 1..MaxManagers, service \in Services :
       (Accesses(b, service) /\ service \in DOMAIN broker[b].resolved)
         => /\ reply'.body.value = broker[b].resolved[service]
            /\ ~reply'.body.read]_vars

\* Values that came from the user's record are returned again and not read again.
RecordValueIsCached ==
  [][\A b \in 1..MaxManagers, service \in Services :
       (Accesses(b, service) /\ service \in DOMAIN broker[b].cached_keys)
         => /\ reply'.body.value = broker[b].cached_keys[service]
            /\ ~reply'.body.read]_vars


(***************************************************************************)
(* The credentials the AI requests are made with: the runs of users, each  *)
(* with its manager, and the runs without a user (webhook trigger,         *)
(* scheduler fire), whose api_manager is None.  Manager 0 stands for no    *)
(* manager.  The executor of an AI node awaits _setup_ai_api_keys and      *)
(* then run_gpt_node; the two are steps of their own because the accessor  *)
(* suspends in the read of the user document.                              *)
(***************************************************************************)
\* The types of the AI nodes: one of each branch of _setup_ai_api_keys.
AiTypes == {"gpt", "claude"}

\* The bodies of PUT /api/user/api-keys with an OpenRouter key.
OpenRouterRequests == {[x \in {"openrouter"} |-> key] : key \in UserKeys}

\* The user of the run of manager b, None for a run without a manager.
RunUser(b) == IF b \in DOMAIN broker THEN broker[b].user_id ELSE None

\* run_gpt_node in the run of manager b (0: a run without a user): the
\* request carries os.getenv("OPENROUTER_API_KEY").
RunGptNode(b) ==
  /\ b = 0 \/ b \in DOMAIN broker
  /\ reply' = Respond(Response("gpt", None, "used",
                               [manager |-> b, user |-> RunUser(b),
                                key |-> Get(environ, "OPENROUTER_API_KEY")]))
  /\ UNCHANGED <<latest, db, engineVars, textVars, schedVars, brokerVars>>

\* The state after startup: user "1" has saved an OpenRouter key, the
\* environment has one of its own or none.
InitIsolation ==
  /\ heap = <<>>
  /\ stored_workflows = EmptyDict
  /\ runs = [r \in {1} |-> IdleRun]
  /\ TextIdle
  /\ SchedIdle
  /\ latest = NoLatest
  /\ reply = NoReply
  /\ db = [Database(FALSE, "ok") EXCEPT
             !.users["1"].api_keys = [x \in {"openrouter"} |-> EncryptApiKey("K1")]]
  /\ broker = <<>>
  /\ \E set \in SUBSET {"OPENROUTER_API_KEY"}, value \in EnvKeys :
       environ = [x \in set |-> value]

NextIsolation ==
  \/ \E user_id \in ManagerUsers : GetUserApiManager(user_id)
  \/ \E b \in 1..MaxManagers, type \in AiTypes : SetupAiApiKeys(b, type)
  \/ \E b \in 0..MaxManagers : RunGptNode(b)
  \/ \E user_id \in Users, request \in OpenRouterRequests : UpdateUserApiKeys(user_id, request)

SpecIsolation == InitIsolation /\ [][NextIsolation]_vars

\* The keys that the managers of users other than user have decrypted from
\* the records of their users.
RecordKeysOfOthers(user) ==
  UNION {{broker[b].cached_keys[x] : x \in DOMAIN broker[b].cached_keys} :
           b \in {c \in DOMAIN broker : broker[c].user_id # user}}

(***************************************************************************)
(* C21: runs are isolated in their credentials.  The key an AI request of  *)
(* a run is made with is never a key that the manager of another user's    *)
(* run decrypted from that user's record; this holds for the runs of       *)
(* users and for the runs without a user, in every interleaving.           *)
(***************************************************************************)
C21_CredentialsIsolated ==
  [][reply'.about.op = "gpt" =>
       reply'.body.key \notin RecordKeysOfOthers(reply'.body.user)]_vars


(***************************************************************************)
(* The two threads on stored_workflows: the event loop with the register,  *)
(* schedule and list handlers, and the pool thread of the scheduler, which *)
(* runs run_scheduled_workflow.  The handlers of the event loop that do    *)
(* not await run one after the other; the pool thread runs at any time.    *)
(* GET /webhook/list reads the dictionary twice: list(keys()) and len().   *)
(***************************************************************************)
\* The request bodies of the register requests: one webhook node.
ThreadFlows == {MkWorkflow(<<[id |-> "a", type |-> "webhook"]>>, <<>>)}

ListOrigin == [kind |-> "list", payload |-> None, source |-> None]

\* A handler of the event loop is between two of its statements.
LoopBusy == \E r \in DOMAIN runs : runs[r].origin.kind = "list"

\* GET /webhook/list up to list(stored_workflows.keys()).
ListKeys(r) ==
  /\ ~LoopBusy
  /\ FreeRun(r)
  /\ runs' = [runs EXCEPT ![r] = [IdleRun EXCEPT !.pc = "count",
                                                 !.origin = ListOrigin,
                                                 !.order = KeyList(stored_workflows)]]
  /\ Silent
  /\ UNCHANGED <<heap, stored_workflows, latest, db, textVars, schedVars, brokerVars>>

\* GET /webhook/list from len(stored_workflows) to its return.
ListCount(r) ==
  /\ runs[r].origin.kind = "list"
  /\ reply' = Respond(Response("list", None, "workflows",
                               [workflows |-> runs[r].order,
                                count     |-> Cardinality(DOMAIN stored_workflows)]))
  /\ runs' = [runs EXCEPT ![r] = IdleRun]
  /\ UNCHANGED <<heap, stored_workflows, latest, db, textVars, schedVars, brokerVars>>

\* The register and the schedule handler when the event loop takes them up.
LoopRegister(id, flow) == ~LoopBusy /\ RegisterWebhook(id, flow)

LoopAddSchedule(id, cron) == ~LoopBusy /\ AddSchedule(id, cron)

InitThreads ==
  /\ heap = <<>>
  /\ stored_workflows = EmptyDict
  /\ runs = [r \in 1..MaxRuns |-> IdleRun]
  /\ TextIdle
  /\ SchedIdle
  /\ latest = NoLatest
  /\ reply = NoReply
  /\ db = Database(FALSE, "down")
  /\ BrokerIdle

NextThreads ==
  \/ \E flow \in ThreadFlows : LoopRegister("X", flow)
  \/ LoopAddSchedule("X", DefaultCron)
  \/ \E r \in 1..MaxRuns : ListKeys(r)
  \/ \E r \in 1..MaxRuns : ListCount(r)
  \/ \E r \in 1..MaxRuns : Fire(r, <<"main", "X">>, 1)
  \/ \E r \in 1..MaxRuns : ExecutorReturns(r)
  \/ \E r \in 1..MaxRuns : JobReturns(r)
  \/ Tick

SpecThreads == InitThreads /\ [][NextThreads]_vars

\* The step is run_scheduled_workflow on the pool thread: it looks the id
\* up in stored_workflows and the engine run registers the webhook nodes.
FireStarts(r) == runs[r].pc = "idle" /\ runs'[r].origin.kind = "fire"

(***************************************************************************)
(* C22: the accesses to stored_workflows exclude each other: while the     *)
(* list handler is between its two reads of the dictionary, no scheduler   *)
(* fire reads or writes the dictionary.                                    *)
(***************************************************************************)
C22_AccessesMutuallyExclusive ==
  [][LoopBusy => /\ \A r \in DOMAIN runs : ~FireStarts(r)
                 /\ stored_workflows' = stored_workflows]_vars

\* What the exclusion would give: the count of a list response is the
\* number of the ids it lists.
ListResponseConsistent ==
  (reply.about.op = "list" /\ reply.key = "workflows")
     => reply.body.count = Len(reply.body.workflows)


(***************************************************************************)
(* Runs of one stored workflow, kept side by side to compare them: the     *)
(* triggers of its id and the runs that run_scheduled_workflow starts on   *)
(* the stored object (run_workflow_engine(workflow.nodes, workflow.edges), *)
(* here without the clock of the scheduler).  No run is given back, so     *)
(* that the finished runs stay in their slots.                             *)
(***************************************************************************)
RerunRuns == MaxRuns + 1

\* The stored workflow: one webhook node.
RerunFlows == {MkWorkflow(<<[id |-> "a", type |-> "webhook"]>>, <<>>)}

\* run_scheduled_workflow(id) for a stored id, in the next free slot.
RunStored(r, id) ==
  /\ FreeRun(r)
  /\ id \in DOMAIN stored_workflows
  /\ RunWorkflow(r, stored_workflows[id])

InitRerun ==
  /\ heap = <<>>
  /\ stored_workflows = EmptyDict
  /\ runs = [r \in 1..RerunRuns |-> IdleRun]
  /\ TextIdle
  /\ SchedIdle
  /\ RecordIdle
  /\ BrokerIdle

NextRerun ==
  \/ \E flow \in RerunFlows : RegisterWebhook("X", flow)
  \/ \E r \in 1..RerunRuns, payload \in Payloads : TriggerWebhook(r, "X", payload, "S1")
  \/ \E r \in 1..RerunRuns : RunStored(r, "X")
  \/ \E r \in 1..RerunRuns : ExecutorReturns(r)

SpecRerun == InitRerun /\ [][NextRerun]_vars

\* The runs p and q are finished runs of the same workflow with the same inputs.
SameRun(p, q) ==
  /\ runs[p].pc = "done"
  /\ runs[q].pc = "done"
  /\ runs[p].obj = runs[q].obj
  /\ runs[p].origin = runs[q].origin

\* The executors were deterministic in p and q: the same node with the
\* same configuration and the same predecessor results gave the same result.
DeterministicExecutors(p, q) ==
  \A i \in DOMAIN runs[p].calls, j \in DOMAIN runs[q].calls :
    (/\ runs[p].calls[i].node = runs[q].calls[j].node
     /\ runs[p].calls[i].data = runs[q].calls[j].data
     /\ runs[p].calls[i].input_data = runs[q].calls[j].input_data)
      => runs[p].results[runs[p].calls[i].node] = runs[q].results[runs[q].calls[j].node]

(***************************************************************************)
(* C23: the engine is deterministic: two runs of the same workflow with    *)
(* the same inputs, under deterministic executors, return the same result  *)
(* map, whatever runs, triggers and registrations came between them.       *)
(***************************************************************************)
C23_EngineDeterministic ==
  \A p, q \in DOMAIN runs :
    (SameRun(p, q) /\ DeterministicExecutors(p, q)) => runs[p].ret = runs[q].ret


(***************************************************************************)
(* One node of a run with the text of its result: the executor of the      *)
(* node is given the configured data and the result of its predecessor     *)
(* (pred_result, of the executor producer) and what it returns goes to     *)
(* the result map through _execute_single_node.  reply holds the node      *)
(* that executed: its type, the route it took and its entry in the result  *)
(* map.                                                                    *)
(***************************************************************************)
\* "Error: "
S_ErrorColon == <<"E", "r", "r", "o", "r", ":", " ">>
\* "Error:"
S_ErrorTag == <<"E", "r", "r", "o", "r", ":">>
\* "Failed:"
S_FailedTag == <<"F", "a", "i", "l", "e", "d", ":">>

\* str.startswith
StartsWith(s, t) == Len(s) >= Len(t) /\ SubSeq(s, 1, Len(t)) = t

\* s[:n]
Prefix(s, n) == SubSeq(s, 1, IF Len(s) < n THEN Len(s) ELSE n)

PromptLimit == 500

\* What the call of an executor into its service leads to: the service
\* returns the string text of a success, it returns the string text of one
\* of its failures, or it raises an exception of message text.
Returns(text) == [how |-> "returns", text |-> text]
Fails(text) == [how |-> "fails", text |-> text]
Raises(text) == [how |-> "raises", text |-> text]

\* ExecutionResult
\* failed tells that the node failed: the executor gave success = False, or
\* the string it passed on is a failure string of its service.
ExecutionResult(success, data, error_message) ==
  [ok |-> success, data |-> data, error |-> error_message, failed |-> ~success]

\* ExecutionResult(True, result) for what the service returned.
Passed(service) ==
  [ExecutionResult(TRUE, service.text, <<>>) EXCEPT !.failed = (service.how = "fails")]

\* WorkflowEngine._execute_single_node for a type of the factory: the entry
\* of the result map for the ExecutionResult of the executor.
ResultEntry(type, result) ==
  IF result.ok THEN result.data
  ELSE IF result.error # <<>> THEN result.error
  ELSE S_ErrorExecuting \o type \o S_Node

\* ImageGenerationNodeExecutor._get_prompt
GetPrompt(prompt, pred) ==
  IF prompt # <<>> THEN prompt
  ELSE IF IsAiContent(pred) THEN Prefix(Strip(pred), PromptLimit)
  ELSE prompt

\* run_image_generation_node
RunImageGenerationNode(prompt, outcome) ==
  IF prompt = <<>> THEN Returns(S_ErrorColon \o S_ImagePromptRequired) ELSE outcome

\* ImageGenerationNodeExecutor.execute
ImageGenerationExecute(prompt, pred, outcome) ==
  LET p == GetPrompt(prompt, pred)
      service == RunImageGenerationNode(p, outcome)
  IN  IF p = <<>> THEN ExecutionResult(FALSE, <<>>, S_ImagePromptRequired)
      ELSE IF service.how = "raises"
           THEN ExecutionResult(FALSE, <<>>, S_ErrorGeneratingImage \o service.text)
           ELSE Passed(service)

ImageOutcomes == {Returns(S_ImageGenerated), Fails(S_ErrOpenAIKey), Raises(S_Boom)}

\* The node that executed, as reply holds it.
Executed(type, route, data, failed, result) ==
  Response(type, None, "result",
           [route |-> route, data |-> data, failed |-> failed, result |-> result])

\* "image_generation"
S_image_generation ==
  <<"i", "m", "a", "g", "e", "_", "g", "e", "n", "e", "r", "a", "t", "i", "o", "n">>

\* An image_generation node of configured prompt executes after its
\* predecessor; used is the prompt that _get_prompt gave it.
ImageExecutes(prompt, outcome) ==
  LET result == ImageGenerationExecute(prompt, pred_result, outcome) IN
  /\ reply = NoReply
  /\ reply' = Executed("image_generation", "factory",
                       [prompt |-> prompt, used |-> GetPrompt(prompt, pred_result)],
                       result.failed, ResultEntry(S_image_generation, result))
  /\ UNCHANGED <<engineVars, textVars, schedVars, latest, db, brokerVars>>

\* "sms"
S_sms ==
  <<"s", "m", "s">>
\* "whatsapp"
S_whatsapp ==
  <<"w", "h", "a", "t", "s", "a", "p", "p">>
\* "twilio"
S_twilio ==
  <<"t", "w", "i", "l", "i", "o">>
\* "social_media"
S_social_media ==
  <<"s", "o", "c", "i", "a", "l", "_", "m", "e", "d", "i", "a">>
\* "schedule"
S_schedule ==
  <<"s", "c", "h", "e", "d", "u", "l", "e">>
\* "file_upload"
S_file_upload ==
  <<"f", "i", "l", "e", "_", "u", "p", "l", "o", "a", "d">>
\* "File upload failed: "
S_FileUploadFailedColon ==
  <<"F", "i", "l", "e", " ", "u", "p", "l", "o", "a", "d", " ", "f", "a", "i", "l", "e", "d", ":", " ">>
\* "'WorkflowEngine' object has no attribute '"
S_NoAttribute ==
  <<"'", "W", "o", "r", "k", "f", "l", "o", "w", "E", "n", "g", "i", "n", "e", "'", " ", "o", "b", "j", "e", "c", "t", " ", "h", "a", "s", " ", "n", "o", " ", "a", "t", "t", "r", "i", "b", "u", "t", "e", " ", "'">>
\* "_execute_messaging_node"
S_execute_messaging_node ==
  <<"_", "e", "x", "e", "c", "u", "t", "e", "_", "m", "e", "s", "s", "a", "g", "i", "n", "g", "_", "n", "o", "d", "e">>
\* "_execute_social_media_node"
S_execute_social_media_node ==
  <<"_", "e", "x", "e", "c", "u", "t", "e", "_", "s", "o", "c", "i", "a", "l", "_", "m", "e", "d", "i", "a", "_", "n", "o", "d", "e">>
\* "https://h.test/in"
S_Url ==
  <<"h", "t", "t", "p", "s", ":", "/", "/", "h", ".", "t", "e", "s", "t", "/", "i", "n">>
\* "h.test/in"
S_BadUrl ==
  <<"h", ".", "t", "e", "s", "t", "/", "i", "n">>
\* "http://"
S_Http ==
  <<"h", "t", "t", "p", ":", "/", "/">>
\* "https://"
S_Https ==
  <<"h", "t", "t", "p", "s", ":", "/", "/">>
\* "Error: Invalid webhook URL format: "
S_InvalidUrlFormat ==
  <<"E", "r", "r", "o", "r", ":", " ", "I", "n", "v", "a", "l", "i", "d", " ", "w", "e", "b", "h", "o", "o", "k", " ", "U", "R", "L", " ", "f", "o", "r", "m", "a", "t", ":", " ">>
\* "Webhook request executed successfully | Status: 200"
S_WebhookExecuted ==
  <<"W", "e", "b", "h", "o", "o", "k", " ", "r", "e", "q", "u", "e", "s", "t", " ", "e", "x", "e", "c", "u", "t", "e", "d", " ", "s", "u", "c", "c", "e", "s", "s", "f", "u", "l", "l", "y", " ", "|", " ", "S", "t", "a", "t", "u", "s", ":", " ", "2", "0", "0">>
\* "Webhook client error: 404"
S_WebhookClientError ==
  <<"W", "e", "b", "h", "o", "o", "k", " ", "c", "l", "i", "e", "n", "t", " ", "e", "r", "r", "o", "r", ":", " ", "4", "0", "4">>
\* "Webhook server error: 500"
S_WebhookServerError ==
  <<"W", "e", "b", "h", "o", "o", "k", " ", "s", "e", "r", "v", "e", "r", " ", "e", "r", "r", "o", "r", ":", " ", "5", "0", "0">>
\* "Webhook failed: "
S_WebhookFailed ==
  <<"W", "e", "b", "h", "o", "o", "k", " ", "f", "a", "i", "l", "e", "d", ":", " ">>
\* "SMS message sent successfully to +15550100"
S_SmsSent ==
  <<"S", "M", "S", " ", "m", "e", "s", "s", "a", "g", "e", " ", "s", "e", "n", "t", " ", "s", "u", "c", "c", "e", "s", "s", "f", "u", "l", "l", "y", " ", "t", "o", " ", "+", "1", "5", "5", "5", "0", "1", "0", "0">>
\* "Error: Recipient phone number is required"
S_ErrRecipientPhone ==
  <<"E", "r", "r", "o", "r", ":", " ", "R", "e", "c", "i", "p", "i", "e", "n", "t", " ", "p", "h", "o", "n", "e", " ", "n", "u", "m", "b", "e", "r", " ", "i", "s", " ", "r", "e", "q", "u", "i", "r", "e", "d">>
\* "Posted to twitter successfully"
S_PostedTwitter ==
  <<"P", "o", "s", "t", "e", "d", " ", "t", "o", " ", "t", "w", "i", "t", "t", "e", "r", " ", "s", "u", "c", "c", "e", "s", "s", "f", "u", "l", "l", "y">>
\* "Social media posting failed: Unknown error"
S_PostingFailed ==
  <<"S", "o", "c", "i", "a", "l", " ", "m", "e", "d", "i", "a", " ", "p", "o", "s", "t", "i", "n", "g", " ", "f", "a", "i", "l", "e", "d", ":", " ", "U", "n", "k", "n", "o", "w", "n", " ", "e", "r", "r", "o", "r">>
\* "Image generated: "
S_ImageGeneratedTag ==
  <<"I", "m", "a", "g", "e", " ", "g", "e", "n", "e", "r", "a", "t", "e", "d", ":", " ">>
\* "Report generated: "
S_ReportGeneratedTag ==
  <<"R", "e", "p", "o", "r", "t", " ", "g", "e", "n", "e", "r", "a", "t", "e", "d", ":", " ">>
\* "Document parsed: "
S_DocumentParsedTag ==
  <<"D", "o", "c", "u", "m", "e", "n", "t", " ", "p", "a", "r", "s", "e", "d", ":", " ">>
\* "Document content to analyze:"
S_DocumentHeader ==
  <<"D", "o", "c", "u", "m", "e", "n", "t", " ", "c", "o", "n", "t", "e", "n", "t", " ", "t", "o", " ", "a", "n", "a", "l", "y", "z", "e", ":">>

\* The text of a node type and of the node id of the one node.
TypeText(type) ==
  CASE type = "gpt" -> S_gpt
    [] type = "claude" -> S_claude
    [] type = "file_upload" -> S_file_upload
    [] type = "image_generation" -> S_image_generation
    [] type = "webhook" -> T_webhook
    [] type = "sms" -> S_sms
    [] type = "whatsapp" -> S_whatsapp
    [] type = "twilio" -> S_twilio
    [] type = "schedule" -> S_schedule
    [] type = "social_media" -> S_social_media
    [] OTHER -> S_foo

NodeIdText == <<"a">>

\* s.split(t)[-1]
RECURSIVE AfterLast(_, _)
AfterLast(s, t) ==
  IF Len(s) < Len(t) \/ ~Contains(s, t) THEN s
  ELSE IF Contains(Tail(s), t) THEN AfterLast(Tail(s), t)
  ELSE SubSeq(s, Len(t) + 1, Len(s))

\* AINodeExecutor._build_prompt; content is the content of the parsed
\* document the predecessor names, empty when it cannot be read or is empty.
BuildPrompt(prompt, label, pred, content) ==
  LET p == IF prompt # <<>> THEN prompt ELSE label IN
  IF Contains(pred, G_DocumentParsed) /\ content # <<>>
  THEN p \o <<"\n", "\n">> \o S_DocumentHeader \o <<"\n">> \o content
  ELSE p

\* AINodeExecutor.execute without a broker; outcome is that of run_gpt_node.
AiExecute(type, prompt, label, pred, content, outcome) ==
  IF BuildPrompt(prompt, label, pred, content) = <<>>
  THEN ExecutionResult(FALSE, <<>>, S_NoPromptFor \o TypeText(type) \o S_Node)
  ELSE IF outcome.how = "raises"
       THEN ExecutionResult(FALSE, <<>>,
                            S_ErrorExecuting \o TypeText(type) \o S_NodeColon \o outcome.text)
       ELSE Passed(outcome)

AiOutcomes == {Returns(S_Hello), Fails(S_ErrQuota), Raises(S_Boom)}

\* FileUploadNodeExecutor._determine_file_path; there tells whether the file
\* the predecessor names exists.
DetermineFilePath(path, pred, there) ==
  LET tag == IF Contains(pred, G_ImageGenerated) THEN S_ImageGeneratedTag
             ELSE IF Contains(pred, G_ReportGenerated) THEN S_ReportGeneratedTag
             ELSE IF Contains(pred, G_DocumentParsed) THEN S_DocumentParsedTag
             ELSE <<>>
  IN  IF tag # <<>> /\ there THEN AfterLast(pred, tag) ELSE path

\* FileUploadNodeExecutor.execute; exists is os.path.exists of the
\* configured path, outcome that of upload_to_drive.
FileUploadExecute(path, pred, there, exists, outcome) ==
  LET file_path == DetermineFilePath(path, pred, there) IN
  IF file_path = <<>> \/ (file_path = path /\ ~exists)
  THEN ExecutionResult(FALSE, <<>>, S_FileNotFoundAt \o file_path)
  ELSE IF outcome.how = "raises"
       THEN ExecutionResult(FALSE, <<>>, S_FileUploadFailedColon \o outcome.text)
       ELSE IF outcome.how = "fails"
            THEN ExecutionResult(FALSE, <<>>, S_FileUploadFailed)
            ELSE ExecutionResult(TRUE, outcome.text, <<>>)

UploadOutcomes == {Returns(S_FileUploaded), Fails(<<>>), Raises(S_Boom)}

\* run_webhook_node; outcome is that of the HTTP exchange as the adapter
\* words it.
RunWebhookNode(webhook_url, outcome) ==
  IF Strip(webhook_url) = <<>> THEN Returns(S_WebhookNoUrl)
  ELSE IF ~(StartsWith(Strip(webhook_url), S_Http) \/ StartsWith(Strip(webhook_url), S_Https))
       THEN Fails(S_InvalidUrlFormat \o Strip(webhook_url))
       ELSE IF outcome.how = "raises" THEN Fails(S_WebhookFailed \o outcome.text)
            ELSE outcome

WebhookOutcomes ==
  {Returns(S_WebhookExecuted), Fails(S_WebhookClientError), Fails(S_WebhookServerError),
   Fails(S_WebhookTimedOut), Raises(S_Boom)}

\* The methods that class WorkflowEngine defines.
EngineMethods ==
  {"__init__", "run_workflow", "_build_graph", "_register_webhook_workflows",
   "_get_execution_order", "_execute_nodes", "_execute_single_node",
   "_execute_legacy_node", "_extract_sheet_values_from_document",
   "_get_document_parser_file_path", "_execute_document_parser",
   "_import_document_parser_method1", "_import_document_parser_method2",
   "_import_document_parser_method3", "_import_document_parser_method4",
   "_execute_report_generator", "_add_file_upload_content_to_report",
   "_format_file_size", "_is_analyzable_file", "_analyze_uploaded_file_content",
   "_is_resume_file", "_analyze_resume_content", "_extract_resume_sections",
   "_extract_key_resume_info", "_analyze_general_document"}

\* self.<method>(...): the method runs and reaches its adapter, with the
\* outcome of the adapter, when the class defines it; the attribute lookup
\* raises AttributeError when it does not.
CallMethod(method, text, adapter, outcome) ==
  IF method \in EngineMethods
  THEN [route |-> adapter, outcome |-> outcome]
  ELSE [route |-> "none", outcome |-> Raises(S_NoAttribute \o text \o <<"'">>)]

\* The branch of WorkflowEngine._execute_legacy_node for the node type.
LegacyBranch(type, data, outcome) ==
  CASE type = "webhook" ->
         [route |-> "run_webhook_node", outcome |-> RunWebhookNode(data.webhook_url, outcome)]
    [] type \in {"sms", "whatsapp", "twilio"} ->
         CallMethod("_execute_messaging_node", S_execute_messaging_node,
                    "run_twilio_node", outcome)
    [] type = "schedule" ->
         [route |-> "none", outcome |-> Returns(S_ScheduleSet)]
    [] type = "social_media" ->
         CallMethod("_execute_social_media_node", S_execute_social_media_node,
                    "run_social_media_node", outcome)
    [] OTHER ->
         [route |-> "none", outcome |-> Fails(TypeText(type) \o S_NotImplemented)]

\* WorkflowEngine._execute_legacy_node: the entry of the result map.
ExecuteLegacyNode(type, data, outcome) ==
  LET branch == LegacyBranch(type, data, outcome) IN
  IF branch.outcome.how = "raises"
  THEN S_ErrorExecuting \o TypeText(type) \o S_Node \o <<" ">> \o NodeIdText
         \o <<":", " ">> \o branch.outcome.text
  ELSE branch.outcome.text

LegacyTypes == {"webhook", "sms", "whatsapp", "twilio", "schedule", "social_media", "foo"}

\* What the adapter of a legacy type can lead to.
LegacyOutcomes(type) ==
  CASE type = "webhook" -> WebhookOutcomes
    [] type \in {"sms", "whatsapp", "twilio"} ->
         {Returns(S_SmsSent), Fails(S_ErrRecipientPhone)}
    [] type = "social_media" -> {Returns(S_PostedTwitter), Fails(S_PostingFailed)}
    [] OTHER -> {Returns(<<>>)}

\* An AI node executes after its predecessor.
AiExecutes(type, prompt, content, outcome) ==
  LET result == AiExecute(type, prompt, <<>>, pred_result, content, outcome) IN
  /\ reply = NoReply
  /\ reply' = Executed(type, "factory", [prompt |-> prompt], result.failed,
                       ResultEntry(TypeText(type), result))
  /\ UNCHANGED <<engineVars, textVars, schedVars, latest, db, brokerVars>>

\* A file_upload node executes after its predecessor.
FileUploadExecutes(path, there, exists, outcome) ==
  LET result == FileUploadExecute(path, pred_result, there, exists, outcome) IN
  /\ reply = NoReply
  /\ reply' = Executed("file_upload", "factory", [path |-> path], result.failed,
                       ResultEntry(S_file_upload, result))
  /\ UNCHANGED <<engineVars, textVars, schedVars, latest, db, brokerVars>>

\* A node of a type without executor class executes: _execute_single_node
\* falls back to _execute_legacy_node.
LegacyExecutes(type, webhook_url, outcome) ==
  LET data == [webhook_url |-> webhook_url]
      branch == LegacyBranch(type, data, outcome)
  IN  /\ reply = NoReply
      /\ type \notin FactoryKinds
      /\ reply' = Executed(type, branch.route, data,
                           branch.outcome.how # "returns",
                           ExecuteLegacyNode(type, data, outcome))
      /\ UNCHANGED <<engineVars, textVars, schedVars, latest, db, brokerVars>>

InitNode ==
  /\ \E x \in ExecutorResults :
       /\ pred_result = x.text
       /\ producer = [kind |-> x.kind, ok |-> x.ok]
  /\ absorbed = EmptyDict
  /\ heap = <<>>
  /\ stored_workflows = EmptyDict
  /\ runs = <<>>
  /\ SchedIdle
  /\ latest = NoLatest
  /\ reply = NoReply
  /\ db = Database(FALSE, "down")
  /\ BrokerIdle

NextNode ==
  \/ \E prompt \in {<<>>, S_Short}, outcome \in ImageOutcomes : ImageExecutes(prompt, outcome)
  \/ \E type \in AiTypes, prompt \in {<<>>, S_Short}, content \in {<<>>, S_Short},
        outcome \in AiOutcomes :
       AiExecutes(type, prompt, content, outcome)
  \/ \E path \in {<<>>, S_PathPdf}, there \in BOOLEAN, exists \in BOOLEAN,
        outcome \in UploadOutcomes :
       FileUploadExecutes(path, there, exists, outcome)
  \/ \E type \in LegacyTypes, webhook_url \in {<<>>, S_Url, S_BadUrl} :
       \E outcome \in LegacyOutcomes(type) : LegacyExecutes(type, webhook_url, outcome)

SpecNode == InitNode /\ [][NextNode]_vars

\* An image_generation node with an empty prompt has executed after an AI
\* node whose result is "Error: quota".
ImageAfterQuotaError ==
  /\ producer.kind = "gpt"
  /\ pred_result = S_ErrQuota
  /\ reply.about.op = "image_generation"
  /\ reply.body.data.prompt = <<>>

(***************************************************************************)
(* C24: with an edge A -> B, A an AI node whose result is "Error: quota"   *)
(* and B an image_generation node with an empty prompt, B does not take    *)
(* A's result as its prompt and B's entry in the result map is exactly     *)
(* "Error: Image prompt is required".                                      *)
(***************************************************************************)
C24_ImageAfterFailedAi ==
  ImageAfterQuotaError =>
    /\ reply.body.data.used # pred_result
    /\ reply.body.result = S_ErrorColon \o S_ImagePromptRequired

\* What the code does there: A's result is not taken, and B's entry is the
\* error message of the executor as it is.
ImageAfterQuotaErrorEntry ==
  ImageAfterQuotaError =>
    /\ reply.body.data.used = <<>>
    /\ reply.body.result = S_ImagePromptRequired

(***************************************************************************)
(* C25: every failure of a node executor reaches the result map as a       *)
(* string that begins with "Error:" or "Failed:", on each failure path of  *)
(* every node kind (missing prompt, missing file, HTTP 4xx/5xx, timeout,   *)
(* raised exception).                                                      *)
(***************************************************************************)
C25_FailuresAreTaggedStrings ==
  (reply.key = "result" /\ reply.body.failed)
  => \/ StartsWith(reply.body.result, S_ErrorTag)
     \/ StartsWith(reply.body.result, S_FailedTag)

\* The adapter of the node types that _execute_legacy_node dispatches.
AdapterOf(type) ==
  CASE type = "webhook" -> "run_webhook_node"
    [] type \in {"sms", "whatsapp", "twilio"} -> "run_twilio_node"
    [] type = "social_media" -> "run_social_media_node"

\* The strings with which the adapter of the type reports success.
SuccessStrings(type) ==
  {o.text : o \in {x \in LegacyOutcomes(type) : x.how = "returns"}}
    \cup (IF type = "webhook" THEN {S_WebhookNoUrl} ELSE {})

(***************************************************************************)
(* C29: every node kind is routed to the adapter of that kind: an sms,     *)
(* whatsapp or twilio node reaches the Twilio adapter and a social_media   *)
(* node reaches the social media adapter, and the result of a node whose   *)
(* adapter succeeded is the success string of the adapter.                 *)
(***************************************************************************)
C29_NodesRoutedToAdapter ==
  (reply.key = "result" /\ reply.about.op \in {"webhook", "sms", "whatsapp", "twilio", "social_media"})
  => /\ reply.body.route = AdapterOf(reply.about.op)
     /\ ~reply.body.failed => reply.body.result \in SuccessStrings(reply.about.op)

\* The webhook node is the one of them that reaches its adapter.
WebhookRouted ==
  (reply.key = "result" /\ reply.about.op = "webhook")
  => /\ reply.body.route = "run_webhook_node"
     /\ ~reply.body.failed => reply.body.result \in SuccessStrings("webhook")

\* No messaging or social media node ever succeeds.
MessagingNeverSucceeds ==
  (reply.key = "result" /\ reply.about.op \in {"sms", "whatsapp", "twilio", "social_media"})
  => /\ reply.body.route = "none"
     /\ reply.body.failed
     /\ StartsWith(reply.body.result, S_ErrorExecuting)


(***************************************************************************)
(* Registrations that fail: cron expressions that CronTrigger.from_crontab *)
(* rejects, in POST /schedule and in the schedule nodes of POST /run, and  *)
(* POST /schedule for an id that is not stored.  The responses are         *)
(* observed; key "raised" is the exception that leaves the handler.        *)
(***************************************************************************)
\* The expressions of the requests that are no crontab expressions.
BadCrons == {"every minute"}

\* len(expr.split())
CronFields(cron) == IF cron \in Crons THEN 5 ELSE 2

\* CronTrigger.from_crontab(cron) raises ValueError: the expression has not
\* five fields.
FromCrontabRaises(cron) == CronFields(cron) # 5

\* The request bodies with a schedule node that from_crontab rejects: alone,
\* and after a schedule node with the default expression.
BadFlows ==
  {MkWorkflow(<<[id |-> "a", type |-> "schedule", cron |-> "every minute"]>>, <<>>),
   MkWorkflow(<<[id |-> "a", type |-> "schedule"],
                [id |-> "b", type |-> "schedule", cron |-> "every minute"]>>,
              <<[source |-> "a", target |-> "b"]>>)}

\* POST /run whose pre-pass meets a schedule node that from_crontab
\* rejects: the nodes before it are stored and their jobs added, the node
\* itself is stored, then the ValueError leaves the handler; no engine run.
PostRunRaises(flow) ==
  /\ Len(heap) < MaxObjs
  /\ \E i \in 1..Len(flow.nodes) :
       flow.nodes[i].type = "schedule" /\ FromCrontabRaises(NodeCron(flow.nodes[i]))
  /\ LET obj   == Len(heap) + 1
         sched == {j \in 1..Len(flow.nodes) : flow.nodes[j].type = "schedule"}
         bad   == CHOOSE i \in sched :
                    /\ FromCrontabRaises(NodeCron(flow.nodes[i]))
                    /\ \A j \in sched : j < i => ~FromCrontabRaises(NodeCron(flow.nodes[j]))
         keys  == {SchedKey(flow.nodes[i].id) : i \in {j \in sched : j <= bad}}
         added == {SchedKey(flow.nodes[i].id) : i \in {j \in sched : j < bad}}
         node(x) == flow.nodes[CHOOSE i \in sched : i < bad /\ SchedKey(flow.nodes[i].id) = x]
     IN /\ heap' = Append(heap, flow)
        /\ stored_workflows' = [k \in (DOMAIN stored_workflows) \cup keys |->
                                  IF k \in keys THEN obj ELSE stored_workflows[k]]
        /\ jobs' = [k \in (DOMAIN jobs) \cup {<<"main", x>> : x \in added} |->
                      IF k[1] = "main" /\ k[2] \in added
                      THEN AddJob(jobs, k, NodeCron(node(k[2])), now)[k] ELSE jobs[k]]
        /\ latest' = [registered |-> latest.registered,
                      flow |-> [k \in (DOMAIN latest.flow) \cup keys |->
                                  IF k \in keys THEN obj ELSE latest.flow[k]],
                      cron |-> [k \in (DOMAIN latest.cron) \cup {<<"main", x>> : x \in added} |->
                                  IF k[1] = "main" /\ k[2] \in added
                                  THEN NodeCron(node(k[2])) ELSE latest.cron[k]]]
        /\ fired' = Forget({<<"main", x>> : x \in added})
  /\ reply' = Respond(Response("run", None, "raised", "ValueError"))
  /\ UNCHANGED <<runs, now, instances, db, textVars, brokerVars>>

\* POST /schedule for a stored id with an expression that from_crontab
\* rejects: the ValueError leaves the handler before add_job is called.
AddScheduleRaises(id, cron) ==
  /\ id \in DOMAIN stored_workflows
  /\ FromCrontabRaises(cron)
  /\ reply' = Respond(Response("schedule", id, "raised", "ValueError"))
  /\ UNCHANGED <<latest, db, engineVars, textVars, schedVars, brokerVars>>

NextFail ==
  \/ \E flow \in JobFlows : RegisterWebhook("X", flow)
  \/ \E r \in 1..MaxRuns, user \in Users, flow \in JobFlows : PostRun(r, user, flow)
  \/ \E r \in 1..MaxRuns : PostRunReturns(r)
  \/ \E flow \in BadFlows : PostRunRaises(flow)
  \/ \E id \in JobIds, cron \in Crons : AddSchedule(id, cron)
  \/ \E id \in JobIds, cron \in BadCrons : AddScheduleRaises(id, cron)
  \/ \E id \in JobIds : AddScheduleNotFound(id)

SpecFail == InitJobs /\ [][NextFail]_vars

\* The step taken answered a registration that failed.
RegistrationFailed ==
  \/ reply'.key = "raised"
  \/ reply'.about.op = "schedule" /\ reply'.key = "error"

(***************************************************************************)
(* C26: a registration that fails leaves all state as it was: after an     *)
(* invalid cron expression in POST /schedule or in a schedule node of      *)
(* POST /run, or an unknown workflow id, neither the stored workflows nor  *)
(* the job store has gained or changed an entry.                           *)
(***************************************************************************)
C26_FailedRegistrationLeavesState ==
  [][RegistrationFailed => stored_workflows' = stored_workflows /\ jobs' = jobs]_vars

\* What the code keeps of it: the failures of POST /schedule change nothing.
FailedScheduleLeavesState ==
  [][(RegistrationFailed /\ reply'.about.op = "schedule")
       => stored_workflows' = stored_workflows /\ jobs' = jobs]_vars


(***************************************************************************)
(* Stopping a job whose run is in flight.  One workflow of two AI nodes is *)
(* stored under X and scheduled in the scheduler of main.py; its runs last *)
(* up to MaxDur ticks and end within the time the model counts.  The       *)
(* responses are observed.                                                 *)
(***************************************************************************)
StopJob == <<"main", "X">>

StopFlows ==
  {MkWorkflow(<<[id |-> "b", type |-> "gpt"], [id |-> "c", type |-> "gpt"]>>,
              <<[source |-> "b", target |-> "c"]>>)}

\* A fire whose run ends within the time counted.
FireInTime(r, k, d) == now + d <= MaxTime /\ Fire(r, k, d)

InitStop ==
  /\ heap = <<>>
  /\ stored_workflows = EmptyDict
  /\ runs = [r \in 1..MaxRuns |-> IdleRun]
  /\ TextIdle
  /\ now = 0
  /\ jobs = EmptyDict
  /\ instances = EmptyDict
  /\ fired = [x \in {StopJob} |-> <<>>]
  /\ latest = NoLatest
  /\ reply = NoReply
  /\ db = Database(FALSE, "down")
  /\ BrokerIdle

FireSteps == \E r \in 1..MaxRuns, d \in 1..MaxDur : FireInTime(r, StopJob, d)

ReturnSteps == \E r \in 1..MaxRuns : ExecutorReturns(r)

JobReturnSteps == \E r \in 1..MaxRuns : JobReturns(r)

NextStop ==
  \/ \E flow \in StopFlows : RegisterWebhook("X", flow)
  \/ \E cron \in Crons : AddSchedule("X", cron)
  \/ StopSchedule("X")
  \/ StopScheduleNotFound("X")
  \/ FireSteps
  \/ ReturnSteps
  \/ JobReturnSteps
  \/ Tick

\* The job is due and its fire can be processed: FireSteps is enabled.
FireDue == StopJob \in DOMAIN jobs /\ jobs[StopJob].next = now /\ now < MaxTime

\* The scheduler thread processes a due job (weak fairness of FireSteps,
\* with its enabling condition written out), the pool thread and the event
\* loop go on with a run whose external call has completed, and time passes.
SpecStop ==
  /\ InitStop
  /\ [][NextStop]_vars
  /\ <>[]FireDue => []<><<FireSteps>>_vars
  /\ WF_vars(ReturnSteps)
  /\ WF_vars(JobReturnSteps)
  /\ WF_vars(Tick)

\* Run r was started by a fire of the job, to end at time e, and is in
\* flight, and the job is not in the store: it was stopped.
InFlightStopped(r, e) ==
  /\ runs[r].origin.kind = "fire"
  /\ runs[r].origin.ends = e
  /\ runs[r].pc = "await"
  /\ StopJob \notin DOMAIN jobs

\* That run has returned the results of all the nodes of its workflow.
RunCompleted(r, e) ==
  /\ runs[r].origin.kind = "fire"
  /\ runs[r].origin.ends = e
  /\ runs[r].pc = "done"
  /\ DOMAIN runs[r].ret = NodeIdsOf(heap[runs[r].obj])

S_WebhookTriggered ==
  <<"W", "e", "b", "h", "o", "o", "k", " ", "t", "r", "i", "g", "g", "e", "r", "e", "d">>
\* "Schedule set:"
S_ScheduleSetTag ==
  <<"S", "c", "h", "e", "d", "u", "l", "e", " ", "s", "e", "t", ":">>

\* The tags and sentinels with which the results of the non-AI executors
\* begin.
ResultTags ==
  {G_DocumentParsed, G_ReportGenerated, G_ImageGenerated, G_FileUploaded,
   S_WebhookTriggered, S_ScheduleSetTag, S_ErrorTag, S_FailedTag}

\* The number of the characters of s that are no whitespace.
NonWhitespace(s) == Cardinality({i \in 1..Len(s) : s[i] # " "})

\* s starts with no tag, is no sent-successfully notification and has more
\* than ten characters that are no whitespace.
UntaggedFreeText(s) ==
  /\ \A tag \in ResultTags : ~StartsWith(s, tag)
  /\ ~Contains(s, T_sent_successfully)
  /\ NonWhitespace(s) > MinAiLen

(***************************************************************************)
(* C28: a predecessor result is treated as AI-generated free text exactly  *)
(* when it starts with none of the recognised tags and sentinels and has   *)
(* more than ten non-whitespace characters: a "Schedule set: ..." result   *)
(* is never absorbed as AI text, and a free text is absorbed whatever      *)
(* words it contains.                                                      *)
(***************************************************************************)
C28_AiTextExactlyUntagged ==
  \A c \in DOMAIN absorbed : absorbed[c] = "ai" <=> UntaggedFreeText(pred_result)

\* The two halves of C28 on their cases: the result of a schedule node is
\* not absorbed as AI text; the AI text with the word "error" is.
ScheduleSetNeverAbsorbed ==
  pred_result = S_ScheduleSet => \A c \in DOMAIN absorbed : absorbed[c] # "ai"

FreeTextAbsorbedWhateverWords ==
  pred_result = S_ErrorRate => \A c \in DOMAIN absorbed : absorbed[c] = "ai"


\* The executors of run r that were invoked and have not returned.
InProgress(r) ==
  {i \in 1..Len(runs[r].calls) : runs[r].calls[i].node \notin DOMAIN runs[r].results}

Invocations(r, n) == {i \in 1..Len(runs[r].calls) : runs[r].calls[i].node = n}

S_DocumentParsedE ==
  <<"D", "o", "c", "u", "m", "e", "n", "t", " ", "p", "a", "r", "s", "e", "d", ":", " ", "p", "a", "r", "s", "e", "d", "_", "d", "o", "c", "u", "m", "e", "n", "t", "s", "/", "e", ".", "j", "s", "o", "n">>
\* "--- Parsed Document Content ---"
S_ParsedHeader ==
  <<"-", "-", "-", " ", "P", "a", "r", "s", "e", "d", " ", "D", "o", "c", "u", "m", "e", "n", "t", " ", "C", "o", "n", "t", "e", "n", "t", " ", "-", "-", "-">>
\* "**Document Content:**"
S_DocumentContent ==
  <<"*", "*", "D", "o", "c", "u", "m", "e", "n", "t", " ", "C", "o", "n", "t", "e", "n", "t", ":", "*", "*">>
\* "**Note:** No text content could be extracted from this document."
S_NoTextNote ==
  <<"*", "*", "N", "o", "t", "e", ":", "*", "*", " ", "N", "o", " ", "t", "e", "x", "t", " ", "c", "o", "n", "t", "e", "n", "t", " ", "c", "o", "u", "l", "d", " ", "b", "e", " ", "e", "x", "t", "r", "a", "c", "t", "e", "d", " ", "f", "r", "o", "m", " ", "t", "h", "i", "s", " ", "d", "o", "c", "u", "m", "e", "n", "t", ".">>
\* "Error reading parsed document: "
S_ErrorReading ==
  <<"E", "r", "r", "o", "r", " ", "r", "e", "a", "d", "i", "n", "g", " ", "p", "a", "r", "s", "e", "d", " ", "d", "o", "c", "u", "m", "e", "n", "t", ":", " ">>
\* "No such file or directory"
S_NoSuchFile ==
  <<"N", "o", " ", "s", "u", "c", "h", " ", "f", "i", "l", "e", " ", "o", "r", " ", "d", "i", "r", "e", "c", "t", "o", "r", "y">>
\* "Content"
S_ContentCell ==
  <<"C", "o", "n", "t", "e", "n", "t">>
\* "Quarterly revenue"
S_ContentD ==
  <<"Q", "u", "a", "r", "t", "e", "r", "l", "y", " ", "r", "e", "v", "e", "n", "u", "e">>
\* "Annual headcount"
S_ContentE ==
  <<"A", "n", "n", "u", "a", "l", " ", "h", "e", "a", "d", "c", "o", "u", "n", "t">>

\* The file a "Document parsed: <path>" result names.
Document(readable, content) == [readable |-> readable, content |-> content]

Input(id, result, file) == [id |-> id, result |-> result, file |-> file]

\* The results a predecessor can have in this model: the document it
\* parsed, with what the file at that path holds, or a text.
InputResults(id, parsed, content) ==
  {Input(id, parsed, Document(TRUE, content)),
   Input(id, parsed, Document(TRUE, <<>>)),
   Input(id, parsed, Document(FALSE, <<>>)),
   Input(id, S_Hello, Document(FALSE, <<>>))}

IsDocument(x) == Contains(x.result, G_DocumentParsed)

\* AINodeExecutor._enhance_prompt_with_document: [none, prompt].
EnhancePromptWithDocument(prompt, x) ==
  IF x.file.readable /\ x.file.content # <<>>
  THEN [none |-> FALSE,
        prompt |-> prompt \o <<"\n", "\n">> \o S_DocumentHeader \o <<"\n">> \o x.file.content]
  ELSE [none |-> TRUE, prompt |-> <<>>]

\* AINodeExecutor._build_prompt over the whole input_data.
RECURSIVE BuildPromptFrom(_, _)
BuildPromptFrom(prompt, inputs) ==
  IF inputs = <<>> THEN prompt
  ELSE IF IsDocument(Head(inputs)) /\ ~EnhancePromptWithDocument(prompt, Head(inputs)).none
       THEN EnhancePromptWithDocument(prompt, Head(inputs)).prompt
       ELSE BuildPromptFrom(prompt, Tail(inputs))

\* EmailNodeExecutor._add_document_content (the Document, Type and Pages
\* lines of the metadata are left out of the block).
RECURSIVE AddDocumentContent(_, _)
AddDocumentContent(email_body, inputs) ==
  IF inputs = <<>> THEN email_body
  ELSE LET x == Head(inputs)
           block == IF ~x.file.readable
                    THEN <<"\n", "\n">> \o S_ErrorReading \o S_NoSuchFile
                    ELSE <<"\n", "\n">> \o S_ParsedHeader \o <<"\n">>
                           \o (IF Strip(x.file.content) # <<>>
                               THEN S_DocumentContent \o <<"\n">> \o x.file.content
                               ELSE S_NoTextNote)
       IN AddDocumentContent(IF IsDocument(x) THEN email_body \o block ELSE email_body,
                             Tail(inputs))

\* WorkflowEngine._extract_sheet_values_from_document for a document that
\* is no spreadsheet: the Content row of the sheet, None (here no rows)
\* when the file cannot be read.
ExtractSheetValues(x) ==
  IF x.file.readable THEN <<<<S_ContentCell, x.file.content>>>> ELSE <<>>

\* The google_sheets branch of _execute_legacy_node: the values written.
RECURSIVE SheetValues(_, _)
SheetValues(values, inputs) ==
  IF inputs = <<>> THEN values
  ELSE IF IsDocument(Head(inputs))
       THEN IF ExtractSheetValues(Head(inputs)) # <<>>
            THEN ExtractSheetValues(Head(inputs))
            ELSE SheetValues(ExtractSheetValues(Head(inputs)), Tail(inputs))
       ELSE SheetValues(values, Tail(inputs))

Built(type, text) == Response(type, None, "built", text)

\* An AI node builds its prompt from its inputs.
AiBuilds(type, prompt) ==
  /\ reply = NoReply
  /\ reply' = Built(type, BuildPromptFrom(prompt, pred_result))
  /\ UNCHANGED <<engineVars, textVars, schedVars, latest, db, brokerVars>>

\* An email node adds the documents among its inputs to its body.
EmailBuilds(body) ==
  /\ reply = NoReply
  /\ reply' = Built("email", AddDocumentContent(body, pred_result))
  /\ UNCHANGED <<engineVars, textVars, schedVars, latest, db, brokerVars>>

\* A google_sheets node determines the values it writes.
SheetsBuilds(values) ==
  /\ reply = NoReply
  /\ reply' = Built("google_sheets", SheetValues(values, pred_result))
  /\ UNCHANGED <<engineVars, textVars, schedVars, latest, db, brokerVars>>

InitDocs ==
  /\ \E x \in InputResults("a", S_DocumentParsed, S_ContentD),
        y \in InputResults("b", S_DocumentParsedE, S_ContentE) : pred_result = <<x, y>>
  /\ producer = [kind |-> "document_parser", ok |-> TRUE]
  /\ absorbed = EmptyDict
  /\ heap = <<>>
  /\ stored_workflows = EmptyDict
  /\ runs = <<>>
  /\ SchedIdle
  /\ latest = NoLatest
  /\ reply = NoReply
  /\ db = Database(FALSE, "down")
  /\ BrokerIdle

NextDocs ==
  \/ \E type \in AiTypes, prompt \in {<<>>, S_Short} : AiBuilds(type, prompt)
  \/ \E body \in {<<>>, S_Short} : EmailBuilds(body)
  \/ \E values \in {<<>>, <<<<S_Short>>>>} : SheetsBuilds(values)

SpecDocs == InitDocs /\ [][NextDocs]_vars

\* The documents among the inputs that can be read and have a content.
Documents ==
  {i \in 1..Len(pred_result) :
     /\ IsDocument(pred_result[i])
     /\ pred_result[i].file.readable
     /\ pred_result[i].file.content # <<>>}

\* The place of the first occurrence of t in s, 0 if there is none.
IndexOf(s, t) ==
  IF Contains(s, t)
  THEN CHOOSE i \in 1..(Len(s) - Len(t) + 1) :
         /\ SubSeq(s, i, i + Len(t) - 1) = t
         /\ \A j \in 1..(i - 1) : SubSeq(s, j, j + Len(t) - 1) # t
  ELSE 0

\* The text holds the content of document i.
Absorbs(text, i) ==
  IF reply.about.op = "google_sheets"
  THEN \E row \in 1..Len(text) : pred_result[i].file.content \in SeqSet(text[row])
  ELSE Contains(text, pred_result[i].file.content)

(***************************************************************************)
(* C32: when a node has several predecessors whose results are             *)
(* "Document parsed: <path>", every executor that absorbs parsed documents *)
(* (the prompt of an AI node, the body of an email, the values of a        *)
(* google_sheets node) absorbs each of those documents, not only the       *)
(* first, and the email and the prompt in the order of the inputs.         *)
(***************************************************************************)
C32_EveryDocumentAbsorbed ==
  reply.key = "built" =>
    /\ \A i \in Documents : Absorbs(reply.body, i)
    /\ reply.about.op # "google_sheets" =>
         \A i, j \in Documents :
           i < j => IndexOf(reply.body, pred_result[i].file.content)
                      < IndexOf(reply.body, pred_result[j].file.content)

\* The email body is the executor that does absorb each document in order.
EmailAbsorbsEveryDocument ==
  (reply.key = "built" /\ reply.about.op = "email") =>
    /\ \A i \in Documents : Absorbs(reply.body, i)
    /\ \A i, j \in Documents :
         i < j => IndexOf(reply.body, pred_result[i].file.content)
                    < IndexOf(reply.body, pred_result[j].file.content)

\* Two documents with contents are among the inputs of an email node.
TwoDocumentsInEmail ==
  reply.key = "built" /\ reply.about.op = "email" /\ Cardinality(Documents) = 2


(***************************************************************************)
(* The two registries of main.py, stored_workflows and the job store of    *)
(* its scheduler, under every handler that writes one of them: run,        *)
(* register, trigger, schedule and stop, with the requests that fail.  No  *)
(* time passes, the responses are observed.                                *)
(***************************************************************************)
\* Mutant: a trigger of an unknown id registers the id for the workflow
\* stored first.
TriggerNotFoundRegisters(id) ==
  /\ id \notin DOMAIN stored_workflows
  /\ stored_workflows' = IF heap = <<>> THEN stored_workflows
                         ELSE Put(stored_workflows, id, 1)
  /\ reply' = Respond(Response("trigger", id, "error", "not found"))
  /\ UNCHANGED <<heap, runs, latest, db, textVars, schedVars, brokerVars>>

\* POST /webhook/trigger/{workflow_id} for an id that is not stored.
TriggerNotFound(id) ==
  /\ id \notin DOMAIN stored_workflows
  /\ reply' = Respond(Response("trigger", id, "error", "not found"))
  /\ UNCHANGED <<latest, db, engineVars, textVars, schedVars, brokerVars>>

NextRegistry ==
  \/ \E flow \in JobFlows : RegisterWebhook("X", flow)
  \/ \E r \in 1..MaxRuns, user \in Users, flow \in JobFlows : PostRun(r, user, flow)
  \/ \E r \in 1..MaxRuns : PostRunReturns(r)
  \/ \E flow \in BadFlows : PostRunRaises(flow)
  \/ \E r \in 1..MaxRuns, id \in JobIds : TriggerWebhook(r, id, "P1", "S1")
  \/ \E id \in JobIds : TriggerNotFound(id)
  \/ \E r \in 1..MaxRuns : TriggerReturns(r)
  \/ \E id \in JobIds : AddSchedule(id, "*/2 * * * *")
  \/ \E id \in JobIds, cron \in BadCrons : AddScheduleRaises(id, cron)
  \/ \E id \in JobIds : AddScheduleNotFound(id)
  \/ \E id \in JobIds : StopSchedule(id)
  \/ \E id \in JobIds : StopScheduleNotFound(id)

SpecRegistry == InitJobs /\ [][NextRegistry]_vars

\* The step taken answered a trigger request for id.
TriggerAnswered(id) == reply'.about = [op |-> "trigger", id |-> id]

(***************************************************************************)
(* C33: a trigger of an id that is not in stored_workflows returns an      *)
(* error, starts no engine run, invokes no executor and leaves             *)
(* stored_workflows and the job store as they were.                        *)
(***************************************************************************)
C33_UnknownTriggerDoesNothing ==
  [][\A id \in JobIds :
       (TriggerAnswered(id) /\ id \notin DOMAIN stored_workflows) =>
         /\ reply'.key = "error"
         /\ UNCHANGED <<stored_workflows, jobs, runs, heap>>]_vars

\* The trigger of an unknown id was answered while a workflow is stored
\* under another id, with a job.
C33_Witness ==
  /\ reply.about = [op |-> "trigger", id |-> "X"]
  /\ reply.key = "error"
  /\ "X" \notin DOMAIN stored_workflows
  /\ SchedKey("a") \in DOMAIN stored_workflows
  /\ <<"main", SchedKey("a")>> \in DOMAIN jobs

(***************************************************************************)
(* C37: in every reachable state each job of the scheduler of main.py      *)
(* refers to a workflow id that is in stored_workflows, whatever run,      *)
(* schedule, stop, register and trigger requests were served.              *)
(***************************************************************************)
C37_JobsReferToStoredIds ==
  \A k \in DOMAIN jobs : k[1] = "main" => k[2] \in DOMAIN stored_workflows

\* A job was added by a schedule request and one by a run request, one
\* was stopped and added again, and a trigger has been answered.
C37_Witness ==
  /\ <<"main", "X">> \in DOMAIN jobs
  /\ <<"main", SchedKey("b")>> \in DOMAIN jobs
  /\ reply.about.op = "trigger"
  /\ reply.key = "message"


\* Runs r and q were started by two triggers of the same stored id with
\* different payloads and neither has returned to its handler.
ConcurrentTriggers(r, q) ==
  /\ r # q
  /\ runs[r].origin.kind = "trigger"
  /\ runs[q].origin.kind = "trigger"
  /\ runs[r].origin.id = runs[q].origin.id
  /\ runs[r].origin.payload # runs[q].origin.payload

(***************************************************************************)
(* C34: when two triggers of the same stored id with payloads P1 and P2    *)
(* are served concurrently, each of the two runs sees its own payload:     *)
(* whenever the executor of a webhook node is invoked in one of them,      *)
(* under every interleaving at the suspension points of the executors,     *)
(* webhook_payload is the payload of the trigger that started that run.    *)
(***************************************************************************)
C34_ConcurrentTriggersOwnPayload ==
  \A r, q \in DOMAIN runs :
    ConcurrentTriggers(r, q) =>
      \A i \in WebhookCalls(r) :
        runs[r].calls[i].data.webhook_payload = runs[r].origin.payload


\* No trigger is being served: every run a trigger started has finished.
NoTriggerInFlight ==
  \A r \in DOMAIN runs : runs[r].origin.kind = "trigger" => runs[r].pc = "done"

(***************************************************************************)
(* C35: the payload a trigger injects is visible only to the run the       *)
(* trigger starts: once the triggers of X have completed, the workflow     *)
(* stored under X is the workflow that was registered, and a run that      *)
(* run_scheduled_workflow starts on the stored workflow does not invoke    *)
(* its webhook nodes with the payload of a trigger.                        *)
(***************************************************************************)
C35_PayloadOnlyInTriggeredRun ==
  /\ NoTriggerInFlight =>
       \A id \in DOMAIN stored_workflows : heap[stored_workflows[id]] \in RerunFlows
  /\ \A r \in DOMAIN runs :
       runs[r].origin.kind = "engine" =>
         \A i \in WebhookCalls(r) : runs[r].calls[i].data.webhook_payload \notin Payloads


(***************************************************************************)
(* The execution counter under concurrent POST /run requests of one user,  *)
(* with a database whose operations all succeed: MongoDB in state ok, or   *)
(* the in-memory database.                                                 *)
(***************************************************************************)
NextCounter ==
  \/ \E r \in 1..MaxRuns, user \in Users, flow \in RecordFlows : PostRun(r, user, flow)
  \/ \E r \in 1..MaxRuns : PostRunReturns(r)
  \/ \E r \in 1..MaxRuns : UpdateStats(r)
  \/ \E r \in 1..MaxRuns : ExecutorReturns(r)

SpecCounter == InitRecord /\ [][NextCounter]_vars

\* Every POST /run received so far has been answered.
AllAnswered == \A r \in DOMAIN runs : runs[r].pc = "idle"

(***************************************************************************)
(* C36: no update of the counter is lost: when the POST /run requests of   *)
(* a user, served concurrently on the MongoDB database, have all           *)
(* completed, the counter of the user is the initial count plus the        *)
(* number of the requests, under every interleaving of the read of the     *)
(* count and the write of count + 1.  (Each request has written its        *)
(* execution record; the in-memory mode is the matter of C18.)             *)
(***************************************************************************)
C36_NoCounterUpdateLost ==
  (AllAnswered /\ ~db.in_memory_mode) =>
    \A u \in Users :
      ReadBack(db, u) = InitialCount(db.in_memory_mode) + Len(db.workflow_executions)


(***************************************************************************)
(* The two outcomes of an engine run, the result map of the nodes and the  *)
(* error return, on workflows whose node ids are free strings: POST /run   *)
(* with a node whose id is "error", and with a cycle.                      *)
(***************************************************************************)
OutcomeFlows ==
  {MkWorkflow(<<[id |-> "error", type |-> "gpt"]>>, <<>>),
   MkWorkflow(<<[id |-> "a", type |-> "gpt"], [id |-> "error", type |-> "webhook"]>>,
              <<[source |-> "a", target |-> "error"]>>),
   MkWorkflow(<<[id |-> "a", type |-> "gpt"], [id |-> "b", type |-> "webhook"]>>,
              <<[source |-> "a", target |-> "b"], [source |-> "b", target |-> "a"]>>)}

NextOutcome ==
  \/ \E r \in 1..MaxRuns, user \in Users, flow \in OutcomeFlows : PostRun(r, user, flow)
  \/ \E r \in 1..MaxRuns : PostRunReturns(r)
  \/ \E r \in 1..MaxRuns : UpdateStats(r)
  \/ \E r \in 1..MaxRuns : ExecutorReturns(r)

SpecOutcome == InitRecord /\ [][NextOutcome]_vars

\* The engine run of slot r has returned and the executor of every node
\* of its workflow was invoked in it.
AllNodesExecuted(r) ==
  /\ runs[r].pc = "done"
  /\ heap[runs[r].obj].nodes # <<>>
  /\ {runs[r].calls[i].node : i \in DOMAIN runs[r].calls} = NodeIdsOf(heap[runs[r].obj])

\* The map has the form of the error return of run_workflow.
ErrorForm(result) == "error" \in DOMAIN result

(***************************************************************************)
(* C38: the two outcomes of the engine are distinguishable for every       *)
(* workflow: a run in which all nodes executed never returns a map of the  *)
(* form of the error return, and the status save_execution_history gives   *)
(* its record is success; also for a valid workflow with a node whose id   *)
(* is "error".                                                             *)
(***************************************************************************)
C38_OutcomesDistinguishable ==
  \A r \in DOMAIN runs :
    AllNodesExecuted(r) =>
      /\ ~ErrorForm(runs[r].ret)
      /\ Status(runs[r].ret) = "success"


(***************************************************************************)
(* A discord node in runs with and without a credential manager.  heap[1]  *)
(* is a workflow of one discord node a whose node.data has the configured  *)
(* webhook_url; reply holds what the executor did with the configuration   *)
(* it found.                                                               *)
(***************************************************************************)
\* The webhook_url of the configuration: none, or the node's own URL.
ConfigUrls == {"", "U1"}

DiscordFlow(url) ==
  [nodes |-> <<[id |-> "a", type |-> "discord"]>>, edges |-> <<>>,
   data  |-> [n \in {"a"} |-> [webhook_url |-> url]]]

\* `if webhook_url:` / `if not webhook_url:`
Truthy(value) == value # None /\ value # ""

\* DiscordNodeExecutor._build_discord_data for node data, in a run whose
\* api_manager is manager b of the broker, b = 0 standing for no manager:
\* the URL it goes on with, the manager and node.data after it.
BuildDiscordData(data, b) ==
  IF b = 0
  THEN [webhook_url |-> data.webhook_url, resolved |-> None, data |-> data, broker |-> broker]
  ELSE LET res == GetApiKey(broker[b], db, environ, "discord")
       IN [webhook_url |-> res.value,
           resolved    |-> res.value,
           data        |-> IF Truthy(res.value)
                           THEN [data EXCEPT !.webhook_url = res.value] ELSE data,
           broker      |-> [broker EXCEPT ![b] = Accessed(res, "discord")]]

\* DiscordNodeExecutor.execute of node a in the run of manager b: the
\* ValueError of a missing URL becomes the failed result, else
\* run_discord_node posts to the URL.
DiscordExecutes(b) ==
  /\ b \in {0} \cup DOMAIN broker
  /\ LET config == heap[1].data["a"]
         built  == BuildDiscordData(config, b)
         about  == [config |-> config.webhook_url, manager |-> b,
                    resolved |-> built.resolved, url |-> None]
     IN /\ heap' = [heap EXCEPT ![1].data["a"] = built.data]
        /\ broker' = built.broker
        /\ reply' = IF Truthy(built.webhook_url)
                    THEN Response("discord", "a", "posted",
                                  [config |-> about.config, manager |-> b,
                                   resolved |-> built.resolved, url |-> built.webhook_url])
                    ELSE Response("discord", "a", "failed", about)
  /\ UNCHANGED <<stored_workflows, runs, environ, latest, db, textVars, schedVars>>

InitDiscord ==
  /\ \E url \in ConfigUrls : heap = <<DiscordFlow(url)>>
  /\ stored_workflows = EmptyDict
  /\ runs = <<>>
  /\ TextIdle
  /\ SchedIdle
  /\ latest = NoLatest
  /\ reply = NoReply
  /\ db = Database(FALSE, "ok")
  /\ broker = <<>>
  /\ \E set \in SUBSET {EnvMapping["discord"]}, value \in EnvKeys :
       environ = [x \in set |-> value]

NextDiscord ==
  \/ \E user_id \in ManagerUsers : GetUserApiManager(user_id)
  \/ \E b \in 0..MaxManagers : DiscordExecutes(b)
  \/ \E user_id \in Users, request \in KeyRequests : UpdateUserApiKeys(user_id, request)

SpecDiscord == InitDiscord /\ [][NextDiscord]_vars

(***************************************************************************)
(* C39: a discord node whose configuration has a non-empty webhook_url     *)
(* never fails for a missing URL: when the run has a credential manager    *)
(* and the manager resolves no discord value, the node still posts to the  *)
(* URL of its own configuration.                                           *)
(***************************************************************************)
C39_ConfiguredDiscordUrlUsed ==
  (reply.about.op = "discord" /\ reply.body.config # "") =>
    /\ reply.key = "posted"
    /\ (reply.body.manager # 0 /\ ~Truthy(reply.body.resolved)) =>
         reply.body.url = reply.body.config

\* Without a manager the node posts to the URL of its configuration.
ConfiguredUrlUsedWithoutManager ==
  (reply.about.op = "discord" /\ reply.body.config # "" /\ reply.body.manager = 0) =>
    reply.key = "posted" /\ reply.body.url = reply.body.config
====
